---- MODULE Spec2Model ----
(***************************************************************************)
(* A model of the rule-based PL/SQL indenter (extension/plsql-indenter.js):*)
(* tokenize, stripNonCode, formatPlsql and uppercaseKeywords.              *)
(*                                                                         *)
(* Text is a sequence of one-character strings.  Positions held in state   *)
(* variables are the 0-based positions of the JavaScript source; At and    *)
(* Substring convert to TLA+'s 1-based sequences.                          *)
(***************************************************************************)
EXTENDS Integers, Sequences, FiniteSets, TLC

VARIABLES
  call,            \* which exported function was invoked
  input,           \* its string argument
  upperCase,       \* options.upperCaseKeywords !== false
  tabSize,         \* options.tabSize || 2
  pc,              \* control point inside the invoked function
  code,            \* the local variable `code`
  tok,             \* tokenize's locals: [i, buf, tokens]
  stringStore,     \* formatPlsql: protected literals
  origLines,       \* formatPlsql: code.split('\n') after restoring literals
  strippedLines,   \* formatPlsql: stripNonCode(code).split('\n')
  result,          \* formatPlsql: the indented lines
  p,               \* index of the next line of the running per-line loop
  ind,             \* indentation state: [level, inWhenThenBranch, parenCallDepth, caseStack]
  sql,             \* query alignment: [sqlBlockStack, currentSqlBlock]
  parenAlignStack, \* parenthesis continuation alignment: target columns
  finalResult,     \* trailing-closer pass: merged lines
  out,             \* the returned string (stripNonCode, formatPlsql)
  runs,            \* completed runs of the Statement Splitter's rule sequence
  returned         \* the calls of formatPlsql that have returned: arguments and result

vars == <<call, input, upperCase, tabSize, pc, code, tok, stringStore, origLines,
          strippedLines, result, p, ind, sql, parenAlignStack, finalResult, out, runs,
          returned>>

-----------------------------------------------------------------------------
(* Characters *)

NL == "\n"
CR == "\r"
SP == " "
TAB == "\t"
QUOTE == "'"

LowerLetters == <<"a","b","c","d","e","f","g","h","i","j","k","l","m",
                  "n","o","p","q","r","s","t","u","v","w","x","y","z">>
UpperLetters == <<"A","B","C","D","E","F","G","H","I","J","K","L","M",
                  "N","O","P","Q","R","S","T","U","V","W","X","Y","Z">>
LowerSet == {LowerLetters[k] : k \in DOMAIN LowerLetters}
UpperSet == {UpperLetters[k] : k \in DOMAIN UpperLetters}
DigitSet == {"0","1","2","3","4","5","6","7","8","9"}

UpperMap == [c \in LowerSet |-> UpperLetters[CHOOSE k \in DOMAIN LowerLetters : LowerLetters[k] = c]]

\* String.prototype.toUpperCase on one character; also how the i flag compares
ToUpperChar(c) == IF c \in LowerSet THEN UpperMap[c] ELSE c

ToUpper(s) == [k \in DOMAIN s |-> ToUpperChar(s[k])]

\* \s
IsSpace(c) == c \in {SP, NL, TAB, CR}
\* \w
IsWord(c) == c \in LowerSet \/ c \in UpperSet \/ c \in DigitSet \/ c = "_"
\* [A-Za-z_]
IsAlpha(c) == c \in LowerSet \/ c \in UpperSet \/ c = "_"

-----------------------------------------------------------------------------
(* String primitives of JavaScript, on 0-based positions *)

Min(a, b) == IF a < b THEN a ELSE b
Max(a, b) == IF a > b THEN a ELSE b

\* s[k]
At(s, k) == s[k + 1]

\* s.substring(a, b): arguments are clamped to [0, length] and swapped if a > b
Substring(s, a, b) ==
  LET a1 == Max(0, Min(a, Len(s)))
      b1 == Max(0, Min(b, Len(s)))
  IN SubSeq(s, Min(a1, b1) + 1, Max(a1, b1))

\* does pat stand at position k of s
StartsAt(s, pat, k) ==
  /\ k >= 0
  /\ k + Len(pat) <= Len(s)
  /\ \A n \in 1..Len(pat) : s[k + n] = pat[n]

\* the least element of a non-empty set of integers
Least(S) == CHOOSE m \in S : \A n \in S : m <= n

\* s.split('\n'): the pieces between consecutive newlines
SplitLines(s) ==
  LET nl == {i \in 1..Len(s) : s[i] = NL}
      n == Cardinality(nl)
      pos(j) == CHOOSE q \in nl : Cardinality({r \in nl : r < q}) = j - 1
      first(j) == IF j = 1 THEN 1 ELSE pos(j - 1) + 1
      last(j) == IF j = n + 1 THEN Len(s) ELSE pos(j) - 1
  IN [j \in 1..(n + 1) |-> SubSeq(s, first(j), last(j))]

\* lines.join('\n')
RECURSIVE JoinLines(_)
JoinLines(ls) ==
  IF ls = <<>> THEN <<>>
  ELSE IF Len(ls) = 1 THEN ls[1]
  ELSE ls[1] \o <<NL>> \o JoinLines(Tail(ls))

\* s.indexOf(pat, from), pat non-empty
IndexOf(s, pat, from) ==
  LET hits == {k \in from..(Len(s) - Len(pat)) : StartsAt(s, pat, k)}
  IN IF hits = {} THEN -1 ELSE Least(hits)

RECURSIVE Concat(_)
Concat(ss) == IF ss = <<>> THEN <<>> ELSE Head(ss) \o Concat(Tail(ss))

-----------------------------------------------------------------------------
(* tokenize *)

Token(t, v) == [type |-> t, value |-> v]

FlushBufDropsCode(st) == st.tokens

\* if (buf) { tokens.push({ type: 'code', value: buf }); buf = ''; }
FlushBuf(st) ==
  IF st.buf # <<>> THEN Append(st.tokens, Token("code", st.buf)) ELSE st.tokens

\* the inner while loop of the quoted-string case: the position after the string
RECURSIVE QuoteScan(_, _)
QuoteScan(src, j) ==
  IF j >= Len(src) THEN j
  ELSE IF At(src, j) = QUOTE /\ j + 1 < Len(src) /\ At(src, j + 1) = QUOTE
       THEN QuoteScan(src, j + 2)
  ELSE IF At(src, j) = QUOTE THEN j + 1
  ELSE QuoteScan(src, j + 1)

\* closeDelim of a q-quote opened with delim
CloseDelim(delim) ==
  IF delim = "[" THEN <<"]", QUOTE>>
  ELSE IF delim = "{" THEN <<"}", QUOTE>>
  ELSE IF delim = "<" THEN <<">", QUOTE>>
  ELSE IF delim = "(" THEN <<")", QUOTE>>
  ELSE <<delim, QUOTE>>

\* var end = code.indexOf('\n', i); if (end === -1) end = len;
LineCommentEnd(src, i) ==
  LET end == IndexOf(src, <<NL>>, i)
  IN IF end = -1 THEN Len(src) ELSE end

BlockCommentEndUnclamped(src, i) == IndexOf(src, <<"*", "/">>, i + 2)

\* var endIdx = code.indexOf('*/', i + 2); if (endIdx === -1) endIdx = len - 2;
BlockCommentEnd(src, i) ==
  LET endIdx == IndexOf(src, <<"*", "/">>, i + 2)
  IN IF endIdx = -1 THEN Len(src) - 2 ELSE endIdx

\* var qEnd = code.indexOf(closeDelim, i + 3); if (qEnd === -1) qEnd = len - closeDelim.length;
QQuoteEnd(src, i, closeDelim) ==
  LET qEnd == IndexOf(src, closeDelim, i + 3)
  IN IF qEnd = -1 THEN Len(src) - Len(closeDelim) ELSE qEnd

\* one iteration of the scan loop `while (i < len)`, for st.i < Len(src)
TokStep(src, st) ==
  LET len == Len(src)
      i == st.i
      c == At(src, i)
  IN
  IF c = "-" /\ i + 1 < len /\ At(src, i + 1) = "-" THEN
    LET end == LineCommentEnd(src, i)
    IN [i |-> end, buf |-> <<>>,
        tokens |-> Append(FlushBuf(st), Token("line_comment", Substring(src, i, end)))]
  ELSE IF c = "/" /\ i + 1 < len /\ At(src, i + 1) = "*" THEN
    LET endIdx == BlockCommentEnd(src, i)
    IN [i |-> endIdx + 2, buf |-> <<>>,
        tokens |-> Append(FlushBuf(st), Token("block_comment", Substring(src, i, endIdx + 2)))]
  ELSE IF c = QUOTE THEN
    LET j == QuoteScan(src, i + 1)
    IN [i |-> j, buf |-> <<>>,
        tokens |-> Append(FlushBuf(st), Token("string", Substring(src, i, j)))]
  ELSE IF (c = "q" \/ c = "Q") /\ i + 2 < len /\ At(src, i + 1) = QUOTE THEN
    LET closeDelim == CloseDelim(At(src, i + 2))
        qEnd == QQuoteEnd(src, i, closeDelim)
        qEndPos == qEnd + Len(closeDelim)
    IN [i |-> qEndPos, buf |-> <<>>,
        tokens |-> Append(FlushBuf(st), Token("string", Substring(src, i, qEndPos)))]
  ELSE [i |-> i + 1, buf |-> Append(st.buf, c), tokens |-> st.tokens]

TokStart == [i |-> 0, buf |-> <<>>, tokens |-> <<>>]

\* a comment, string or q-quote starts at position k: the tests of the first
\* four branches of the scan loop
LiteralStartsAt(src, k) ==
  LET c == At(src, k)
  IN \/ c = "-" /\ k + 1 < Len(src) /\ At(src, k + 1) = "-"
     \/ c = "/" /\ k + 1 < Len(src) /\ At(src, k + 1) = "*"
     \/ c = QUOTE
     \/ (c = "q" \/ c = "Q") /\ k + 2 < Len(src) /\ At(src, k + 1) = QUOTE

\* the iterations of the last branch, from st.i up to the next literal: each
\* appends one character to buf
TokCodeRun(src, st) ==
  LET starts == {k \in st.i..(Len(src) - 1) : LiteralStartsAt(src, k)}
      j == IF starts = {} THEN Len(src) ELSE Least(starts)
  IN [i |-> j, buf |-> st.buf \o Substring(src, st.i, j), tokens |-> st.tokens]

\* the scan loop, run to its end
RECURSIVE TokRun(_, _)
TokRun(src, st) ==
  IF st.i >= Len(src) THEN st
  ELSE IF LiteralStartsAt(src, st.i) THEN TokRun(src, TokStep(src, st))
  ELSE TokRun(src, TokCodeRun(src, st))

\* tokenize(code)
Tokenize(src) == FlushBuf(TokRun(src, TokStart))

TokenValues(tokens) == Concat([k \in DOMAIN tokens |-> tokens[k].value])

-----------------------------------------------------------------------------
(* stripNonCode *)

MaskCharBlanksNewline(c) == SP

\* what a character of a non-code token becomes in the mask
MaskChar(c) == IF c = NL THEN NL ELSE SP

MaskToken(t) ==
  IF t.type = "code" THEN t.value ELSE [k \in DOMAIN t.value |-> MaskChar(t.value[k])]

MaskTokens(tokens) == Concat([k \in DOMAIN tokens |-> MaskToken(tokens[k])])

\* stripNonCode(code)
StripNonCode(src) == MaskTokens(Tokenize(src))

-----------------------------------------------------------------------------
(* Regular-expression primitives *)

KW_END == <<"E","N","D">>
KW_LOOP == <<"L","O","O","P">>
KW_IF == <<"I","F">>
KW_CASE == <<"C","A","S","E">>
KW_BEGIN == <<"B","E","G","I","N">>
KW_DECLARE == <<"D","E","C","L","A","R","E">>
KW_IS == <<"I","S">>
KW_AS == <<"A","S">>
KW_THEN == <<"T","H","E","N">>
KW_ELSIF == <<"E","L","S","I","F">>
KW_ELSE == <<"E","L","S","E">>
KW_EXCEPTION == <<"E","X","C","E","P","T","I","O","N">>
KW_WHEN == <<"W","H","E","N">>
KW_FROM == <<"F","R","O","M">>
KW_WHERE == <<"W","H","E","R","E">>
KW_INTO == <<"I","N","T","O">>
KW_VALUES == <<"V","A","L","U","E","S">>
KW_SET == <<"S","E","T">>
KW_ORDER == <<"O","R","D","E","R">>
KW_BY == <<"B","Y">>
KW_GROUP == <<"G","R","O","U","P">>
KW_HAVING == <<"H","A","V","I","N","G">>
KW_AND == <<"A","N","D">>
KW_OR == <<"O","R">>
KW_IN == <<"I","N">>
KW_LIKE == <<"L","I","K","E">>
KW_BETWEEN == <<"B","E","T","W","E","E","N">>
KW_SELECT == <<"S","E","L","E","C","T">>
KW_INSERT == <<"I","N","S","E","R","T">>
KW_UPDATE == <<"U","P","D","A","T","E">>
KW_DELETE == <<"D","E","L","E","T","E">>
KW_MERGE == <<"M","E","R","G","E">>
KW_CREATE == <<"C","R","E","A","T","E">>
KW_REPLACE == <<"R","E","P","L","A","C","E">>
KW_PROCEDURE == <<"P","R","O","C","E","D","U","R","E">>
KW_FUNCTION == <<"F","U","N","C","T","I","O","N">>
KW_PACKAGE == <<"P","A","C","K","A","G","E">>
KW_BODY == <<"B","O","D","Y">>
KW_TRIGGER == <<"T","R","I","G","G","E","R">>
KW_TYPE == <<"T","Y","P","E">>
KW_FOR == <<"F","O","R">>

\* the type names of rule 5's (?:NUMBER|VARCHAR2|...)
DeclTypes ==
  {<<"N","U","M","B","E","R">>,
   <<"V","A","R","C","H","A","R","2">>,
   <<"I","N","T","E","G","E","R">>,
   <<"B","O","O","L","E","A","N">>,
   <<"D","A","T","E">>,
   <<"T","I","M","E","S","T","A","M","P">>,
   <<"C","H","A","R">>,
   <<"C","L","O","B">>,
   <<"B","L","O","B">>,
   <<"P","L","S","_","I","N","T","E","G","E","R">>,
   <<"B","I","N","A","R","Y","_","I","N","T","E","G","E","R">>,
   <<"R","A","W">>,
   <<"L","O","N","G">>,
   <<"C","O","N","S","T","A","N","T">>,
   <<"C","U","R","S","O","R">>}

\* the position after the longest run of \s starting at k
RECURSIVE SkipSpace(_, _)
SkipSpace(s, k) == IF k < Len(s) /\ IsSpace(At(s, k)) THEN SkipSpace(s, k + 1) ELSE k

\* the position after the longest run of \S starting at k
RECURSIVE SkipNonSpace(_, _)
SkipNonSpace(s, k) == IF k < Len(s) /\ ~IsSpace(At(s, k)) THEN SkipNonSpace(s, k + 1) ELSE k

\* the position after the longest run of \w starting at k
RECURSIVE SkipWord(_, _)
SkipWord(s, k) == IF k < Len(s) /\ IsWord(At(s, k)) THEN SkipWord(s, k + 1) ELSE k

\* the position of the next newline at or after k, or the length: where .+ stops
RECURSIVE EndOfLine(_, _)
EndOfLine(s, k) == IF k < Len(s) /\ At(s, k) # NL THEN EndOfLine(s, k + 1) ELSE k

IsWordAt(s, k) == k >= 0 /\ k < Len(s) /\ IsWord(At(s, k))

\* \b at position k
WordBoundary(s, k) == IsWordAt(s, k - 1) # IsWordAt(s, k)

\* the literal kw (upper case) at position k under the i flag
MatchCI(s, kw, k) ==
  /\ k >= 0
  /\ k + Len(kw) <= Len(s)
  /\ \A n \in 1..Len(kw) : ToUpperChar(s[k + n]) = kw[n]

\* \bkw at position k
WordStartCI(s, kw, k) == WordBoundary(s, k) /\ MatchCI(s, kw, k)

\* kw\b at position k
WordEndCI(s, kw, k) == MatchCI(s, kw, k) /\ WordBoundary(s, k + Len(kw))

\* the alternative of (k1|k2|...) that matches at k, <<>> if none; the
\* alternatives used here never match at the same position
AltAt(s, alts, k) ==
  IF \E n \in DOMAIN alts : MatchCI(s, alts[n], k)
  THEN alts[CHOOSE n \in DOMAIN alts :
              MatchCI(s, alts[n], k) /\ \A m \in 1..(n - 1) : ~MatchCI(s, alts[m], k)]
  ELSE <<>>

\* s.trim(), s.trimStart()
RECURSIVE TrimEndPos(_, _)
TrimEndPos(s, k) == IF k > 0 /\ IsSpace(At(s, k - 1)) THEN TrimEndPos(s, k - 1) ELSE k

TrimStart(s) == Substring(s, SkipSpace(s, 0), Len(s))
Trim(s) == LET a == SkipSpace(s, 0) IN IF a >= Len(s) THEN <<>> ELSE Substring(s, a, TrimEndPos(s, Len(s)))

-----------------------------------------------------------------------------
(* formatPlsql: protecting literals *)

\* the decimal digits of n >= 0, as '' + n gives them
RECURSIVE Decimal(_)
Decimal(n) ==
  LET digits == <<"0","1","2","3","4","5","6","7","8","9">>
  IN IF n < 10 THEN <<digits[n + 1]>> ELSE Append(Decimal(n \div 10), digits[(n % 10) + 1])

\* '___STR' + n + '___'
Placeholder(n) == <<"_","_","_","S","T","R">> \o Decimal(n) \o <<"_","_","_">>

\* the loop that replaces every non-code token by a placeholder; n is the
\* number of literals stored so far
RECURSIVE ProtectFrom(_, _, _)
ProtectFrom(tokens, t, n) ==
  IF t > Len(tokens) THEN [code |-> <<>>, store |-> <<>>]
  ELSE IF tokens[t].type # "code"
       THEN LET rest == ProtectFrom(tokens, t + 1, n + 1)
            IN [code |-> Placeholder(n) \o rest.code, store |-> <<tokens[t].value>> \o rest.store]
  ELSE LET rest == ProtectFrom(tokens, t + 1, n)
       IN [code |-> tokens[t].value \o rest.code, store |-> rest.store]

Protected(tokens) == ProtectFrom(tokens, 1, 0)

\* code.split(ph).join(text)
RECURSIVE SplitJoin(_, _, _, _)
SplitJoin(s, ph, text, k) ==
  LET j == IndexOf(s, ph, k)
  IN IF j = -1 THEN Substring(s, k, Len(s))
     ELSE Substring(s, k, j) \o text \o SplitJoin(s, ph, text, j + Len(ph))

\* the loop that restores the literals, from placeholder ri on (0-based)
RECURSIVE RestoreFrom(_, _, _)
RestoreFrom(s, store, ri) ==
  IF ri >= Len(store) THEN s
  ELSE RestoreFrom(SplitJoin(s, Placeholder(ri), store[ri + 1], 0), store, ri + 1)

Restored(s, store) == RestoreFrom(s, store, 0)

-----------------------------------------------------------------------------
(* formatPlsql: the pre-processing rules *)

NoMatch == [end |-> -1, rep |-> <<>>]
Hit(e, r) == [end |-> e, rep |-> r]

\* rule 1: /\bEND\s*\n\s*(LOOP|IF|CASE)\s*;/gi -> 'END $1;'
RejoinEndAt(s, k) ==
  IF ~WordStartCI(s, KW_END, k) THEN NoMatch
  ELSE LET a == k + 3
           b == SkipSpace(s, a)
           kw == AltAt(s, <<KW_LOOP, KW_IF, KW_CASE>>, b)
           c == b + Len(kw)
           d == SkipSpace(s, c)
       IN IF /\ \E j \in a..(b - 1) : At(s, j) = NL
             /\ kw # <<>>
             /\ d < Len(s)
             /\ At(s, d) = ";"
          THEN Hit(d + 1, KW_END \o <<SP>> \o Substring(s, b, c) \o <<";">>)
          ELSE NoMatch

\* rule 3: /\b(BEGIN)\s+(?!\s*$)([A-Za-z_])/gi -> '$1\n$2'
BeginAt(s, k) ==
  IF ~WordStartCI(s, KW_BEGIN, k) THEN NoMatch
  ELSE LET a == k + 5
           b == SkipSpace(s, a)
       IN IF b > a /\ b < Len(s) /\ IsAlpha(At(s, b))
          THEN Hit(b + 1, Substring(s, k, a) \o <<NL, At(s, b)>>)
          ELSE NoMatch

\* rule 4: /\b(DECLARE)\s+(\w)/gi -> '$1\n$2'
DeclareAt(s, k) ==
  IF ~WordStartCI(s, KW_DECLARE, k) THEN NoMatch
  ELSE LET a == k + 7
           b == SkipSpace(s, a)
       IN IF b > a /\ b < Len(s) /\ IsWord(At(s, b))
          THEN Hit(b + 1, Substring(s, k, a) \o <<NL, At(s, b)>>)
          ELSE NoMatch

\* rule 5: /\b(IS|AS)\s+(\w+\s+(?:NUMBER|...|CURSOR)\b)/gi -> '$1\n$2'
IsAsAt(s, k) ==
  IF ~(WordBoundary(s, k) /\ AltAt(s, <<KW_IS, KW_AS>>, k) # <<>>) THEN NoMatch
  ELSE LET a == k + 2
           b == SkipSpace(s, a)
           c == SkipWord(s, b)
           d == SkipSpace(s, c)
       IN IF b > a /\ c > b /\ d > c /\ \E t \in DeclTypes : WordEndCI(s, t, d)
          THEN LET t == CHOOSE t \in DeclTypes : WordEndCI(s, t, d)
               IN Hit(d + Len(t), Substring(s, k, a) \o <<NL>> \o Substring(s, b, d + Len(t)))
          ELSE NoMatch

\* rule 6: /;\s*(END\s+(IF|LOOP|CASE)\s*;)/gi -> ';\n$1'
EndKeywordAt(s, k) ==
  IF At(s, k) # ";" THEN NoMatch
  ELSE LET a == SkipSpace(s, k + 1)
           b == a + 3
           c == SkipSpace(s, b)
           kw == AltAt(s, <<KW_IF, KW_LOOP, KW_CASE>>, c)
           e == SkipSpace(s, c + Len(kw))
       IN IF MatchCI(s, KW_END, a) /\ c > b /\ kw # <<>> /\ e < Len(s) /\ At(s, e) = ";"
          THEN Hit(e + 1, <<";", NL>> \o Substring(s, a, e + 1))
          ELSE NoMatch

\* rule 6: /;\s*(END\s+\w+\s*;)/gi -> ';\n$1'
EndLabelAt(s, k) ==
  IF At(s, k) # ";" THEN NoMatch
  ELSE LET a == SkipSpace(s, k + 1)
           b == a + 3
           c == SkipSpace(s, b)
           d == SkipWord(s, c)
           e == SkipSpace(s, d)
       IN IF MatchCI(s, KW_END, a) /\ c > b /\ d > c /\ e < Len(s) /\ At(s, e) = ";"
          THEN Hit(e + 1, <<";", NL>> \o Substring(s, a, e + 1))
          ELSE NoMatch

\* rule 6: /;\s*(END\s*;)/gi -> ';\n$1'
EndBareAt(s, k) ==
  IF At(s, k) # ";" THEN NoMatch
  ELSE LET a == SkipSpace(s, k + 1)
           e == SkipSpace(s, a + 3)
       IN IF MatchCI(s, KW_END, a) /\ e < Len(s) /\ At(s, e) = ";"
          THEN Hit(e + 1, <<";", NL>> \o Substring(s, a, e + 1))
          ELSE NoMatch

\* rule 7: /(\bTHEN)\s+(?!\s*$)(.+)/gi -> '$1\n$2'
ThenAt(s, k) ==
  IF ~WordStartCI(s, KW_THEN, k) THEN NoMatch
  ELSE LET a == k + 4
           b == SkipSpace(s, a)
       IN IF b > a /\ b < Len(s)
          THEN Hit(EndOfLine(s, b), Substring(s, k, a) \o <<NL>> \o Substring(s, b, EndOfLine(s, b)))
          ELSE NoMatch

\* rule 8: /(\bLOOP)\s+(?!\s*$)(?!END\b)(.+)/gi -> '$1\n$2'
\* When END follows the whitespace, \s+ gives characters back until (.+) can
\* start on a blank that is no newline.
LoopAt(s, k) ==
  IF ~WordStartCI(s, KW_LOOP, k) THEN NoMatch
  ELSE LET a == k + 4
           b == SkipSpace(s, a)
           back == {j \in (a + 1)..(b - 1) : At(s, j) # NL}
           j == IF ~WordEndCI(s, KW_END, b) THEN b
                ELSE IF back # {} THEN CHOOSE m \in back : \A n \in back : n <= m
                ELSE -1
       IN IF b > a /\ b < Len(s) /\ j >= 0
          THEN Hit(EndOfLine(s, j), Substring(s, k, a) \o <<NL>> \o Substring(s, j, EndOfLine(s, j)))
          ELSE NoMatch

\* rule 9: /;\s*(ELSIF\b)/gi and the same for ELSE, EXCEPTION, WHEN -> ';\n$1'
SemiKeywordAt(s, k, kw) ==
  IF At(s, k) # ";" THEN NoMatch
  ELSE LET a == SkipSpace(s, k + 1)
       IN IF WordEndCI(s, kw, a)
          THEN Hit(a + Len(kw), <<";", NL>> \o Substring(s, a, a + Len(kw)))
          ELSE NoMatch

\* rule 9b: /\b(ELSE)\s+(?!\s*$)(?!IF\b)([A-Za-z_])/gi -> '$1\n$2'
ElseAt(s, k) ==
  IF ~WordStartCI(s, KW_ELSE, k) THEN NoMatch
  ELSE LET a == k + 4
           b == SkipSpace(s, a)
       IN IF b > a /\ b < Len(s) /\ ~WordEndCI(s, KW_IF, b) /\ IsAlpha(At(s, b))
          THEN Hit(b + 1, Substring(s, k, a) \o <<NL, At(s, b)>>)
          ELSE NoMatch

\* rule 9b: /\b(EXCEPTION)\s+(WHEN\b)/gi -> '$1\n$2'
ExceptionWhenAt(s, k) ==
  IF ~WordStartCI(s, KW_EXCEPTION, k) THEN NoMatch
  ELSE LET a == k + 9
           b == SkipSpace(s, a)
       IN IF b > a /\ WordEndCI(s, KW_WHEN, b)
          THEN Hit(b + 4, Substring(s, k, a) \o <<NL>> \o Substring(s, b, b + 4))
          ELSE NoMatch

\* rule 9c: /\b(CASE\s+\S+)\s+(WHEN\b)/gi -> '$1\n$2'
CaseWhenAt(s, k) ==
  IF ~WordStartCI(s, KW_CASE, k) THEN NoMatch
  ELSE LET a == k + 4
           b == SkipSpace(s, a)
           c == SkipNonSpace(s, b)
           d == SkipSpace(s, c)
       IN IF b > a /\ c > b /\ d > c /\ WordEndCI(s, KW_WHEN, d)
          THEN Hit(d + 4, Substring(s, k, c) \o <<NL>> \o Substring(s, d, d + 4))
          ELSE NoMatch

\* rule 10: /\s+(FROM)\s+/gi and the same for WHERE, SET, HAVING -> '\n$1 '
ClauseAt(s, k, kw) ==
  IF ~IsSpace(At(s, k)) THEN NoMatch
  ELSE LET a == SkipSpace(s, k)
           b == a + Len(kw)
           c == SkipSpace(s, b)
       IN IF MatchCI(s, kw, a) /\ c > b
          THEN Hit(c, <<NL>> \o Substring(s, a, b) \o <<SP>>)
          ELSE NoMatch

\* rule 10: /\s+(INTO)\s+(?!VALUES)/gi -> '\n$1 '
\* When VALUES follows the whitespace, \s+ gives one character back.
IntoAt(s, k) ==
  IF ~IsSpace(At(s, k)) THEN NoMatch
  ELSE LET a == SkipSpace(s, k)
           b == a + 4
           c == SkipSpace(s, b)
           e == IF ~MatchCI(s, KW_VALUES, c) THEN c ELSE c - 1
       IN IF MatchCI(s, KW_INTO, a) /\ c > b /\ e > b
          THEN Hit(e, <<NL>> \o Substring(s, a, b) \o <<SP>>)
          ELSE NoMatch

\* rule 10: /\s+(ORDER\s+BY)\s+/gi and the same for GROUP BY -> '\n$1 '
ClauseByAt(s, k, kw) ==
  IF ~IsSpace(At(s, k)) THEN NoMatch
  ELSE LET a == SkipSpace(s, k)
           a2 == a + Len(kw)
           b1 == SkipSpace(s, a2)
           b == b1 + 2
           c == SkipSpace(s, b)
       IN IF MatchCI(s, kw, a) /\ b1 > a2 /\ MatchCI(s, KW_BY, b1) /\ c > b
          THEN Hit(c, <<NL>> \o Substring(s, a, b) \o <<SP>>)
          ELSE NoMatch

\* the lookahead of the AND rule at position c:
\* (?=\w+\s*[=<>!]|\w+\s+(?:IN|LIKE|BETWEEN|IS)\b)
ConditionAhead(s, c) ==
  LET w == SkipWord(s, c)
      x == SkipSpace(s, w)
  IN /\ w > c
     /\ \/ x < Len(s) /\ At(s, x) \in {"=", "<", ">", "!"}
        \/ x > w /\ \E kw \in {KW_IN, KW_LIKE, KW_BETWEEN, KW_IS} : WordEndCI(s, kw, x)

\* rule 10: /\s+(AND)\s+(?=...)/gi -> '\n$1 '
AndAt(s, k) ==
  IF ~IsSpace(At(s, k)) THEN NoMatch
  ELSE LET a == SkipSpace(s, k)
           b == a + 3
           c == SkipSpace(s, b)
       IN IF MatchCI(s, KW_AND, a) /\ c > b /\ ConditionAhead(s, c)
          THEN Hit(c, <<NL>> \o Substring(s, a, b) \o <<SP>>)
          ELSE NoMatch

\* the match of one rule's regular expression at position k
RuleAt(rule, s, k) ==
  CASE rule = "rejoinEnd" -> RejoinEndAt(s, k)
    [] rule = "begin" -> BeginAt(s, k)
    [] rule = "declare" -> DeclareAt(s, k)
    [] rule = "isAs" -> IsAsAt(s, k)
    [] rule = "endKeyword" -> EndKeywordAt(s, k)
    [] rule = "endLabel" -> EndLabelAt(s, k)
    [] rule = "endBare" -> EndBareAt(s, k)
    [] rule = "then" -> ThenAt(s, k)
    [] rule = "loop" -> LoopAt(s, k)
    [] rule = "semiElsif" -> SemiKeywordAt(s, k, KW_ELSIF)
    [] rule = "semiElse" -> SemiKeywordAt(s, k, KW_ELSE)
    [] rule = "semiException" -> SemiKeywordAt(s, k, KW_EXCEPTION)
    [] rule = "semiWhen" -> SemiKeywordAt(s, k, KW_WHEN)
    [] rule = "else" -> ElseAt(s, k)
    [] rule = "exceptionWhen" -> ExceptionWhenAt(s, k)
    [] rule = "caseWhen" -> CaseWhenAt(s, k)
    [] rule = "from" -> ClauseAt(s, k, KW_FROM)
    [] rule = "where" -> ClauseAt(s, k, KW_WHERE)
    [] rule = "into" -> IntoAt(s, k)
    [] rule = "set" -> ClauseAt(s, k, KW_SET)
    [] rule = "orderBy" -> ClauseByAt(s, k, KW_ORDER)
    [] rule = "groupBy" -> ClauseByAt(s, k, KW_GROUP)
    [] rule = "having" -> ClauseAt(s, k, KW_HAVING)
    [] rule = "and" -> AndAt(s, k)

\* code.replace(re, replacement) with a global re: the leftmost match is
\* replaced and the scan resumes at its end
RECURSIVE ReplaceFrom(_, _, _)
ReplaceFrom(rule, s, k) ==
  LET hits == {j \in k..(Len(s) - 1) : RuleAt(rule, s, j).end > j}
  IN IF hits = {} THEN Substring(s, k, Len(s))
     ELSE LET j == Least(hits)
              m == RuleAt(rule, s, j)
          IN Substring(s, k, j) \o m.rep \o ReplaceFrom(rule, s, m.end)

ReplaceAll(rule, s) == ReplaceFrom(rule, s, 0)

\* the replace calls of rules 3 to 10, in source order
KeywordRules ==
  <<"begin", "declare", "isAs", "endKeyword", "endLabel", "endBare", "then", "loop",
    "semiElsif", "semiElse", "semiException", "semiWhen", "else", "exceptionWhen",
    "caseWhen", "from", "where", "into", "set", "orderBy", "groupBy", "having", "and">>

RECURSIVE ApplyRules(_, _, _)
ApplyRules(rules, n, s) ==
  IF n > Len(rules) THEN s ELSE ApplyRules(rules, n + 1, ReplaceAll(rules[n], s))

\* rules 3 to 10
SplitKeywords(s) == ApplyRules(KeywordRules, 1, s)

\* rule 2, the scan of one masked line for the ';' to split after
RECURSIVE FindSplit(_, _, _)
FindSplit(sLine, ci, depth) ==
  IF ci >= Len(sLine) - 1 THEN -1
  ELSE LET ch == At(sLine, ci)
           depth1 == IF ch = "(" THEN depth + 1 ELSE IF ch = ")" THEN depth - 1 ELSE depth
           rest == Trim(Substring(sLine, ci + 1, Len(sLine)))
       IN IF depth1 = 0 /\ ch = ";" /\ ci + 1 < Len(sLine) /\ Len(rest) > 0 /\ IsAlpha(rest[1])
          THEN ci
          ELSE FindSplit(sLine, ci + 1, depth1)

\* rule 2, what one line contributes to newLines
SplitLine(line, sLine) ==
  LET splitIdx == FindSplit(sLine, 0, 0)
  IN IF splitIdx >= 0
     THEN <<Substring(line, 0, splitIdx + 1), TrimStart(Substring(line, splitIdx + 1, Len(line)))>>
     ELSE <<line>>

\* rule 2, one pass of the do-while body. sLines[si] is undefined when the
\* mask has fewer lines than the code, and reading its length throws.
SemicolonPass(src) ==
  LET lines == SplitLines(src)
      sLines == SplitLines(StripNonCode(src))
  IN IF Len(sLines) < Len(lines) THEN [thrown |-> TRUE, code |-> src]
     ELSE [thrown |-> FALSE,
           code |-> JoinLines(Concat([si \in DOMAIN lines |-> SplitLine(lines[si], sLines[si])]))]

-----------------------------------------------------------------------------
(* uppercaseKeywords *)

\* the keywords array
keywords ==
  {<<"D","E","C","L","A","R","E">>,
   <<"B","E","G","I","N">>,
   <<"E","N","D">>,
   <<"E","X","C","E","P","T","I","O","N">>,
   <<"W","H","E","N">>,
   <<"T","H","E","N">>,
   <<"E","L","S","E">>,
   <<"E","L","S","I","F">>,
   <<"I","F">>,
   <<"L","O","O","P">>,
   <<"F","O","R">>,
   <<"W","H","I","L","E">>,
   <<"E","X","I","T">>,
   <<"C","O","N","T","I","N","U","E">>,
   <<"R","E","T","U","R","N">>,
   <<"C","A","S","E">>,
   <<"S","E","L","E","C","T">>,
   <<"F","R","O","M">>,
   <<"W","H","E","R","E">>,
   <<"I","N","S","E","R","T">>,
   <<"I","N","T","O">>,
   <<"V","A","L","U","E","S">>,
   <<"U","P","D","A","T","E">>,
   <<"S","E","T">>,
   <<"D","E","L","E","T","E">>,
   <<"M","E","R","G","E">>,
   <<"C","R","E","A","T","E">>,
   <<"O","R">>,
   <<"R","E","P","L","A","C","E">>,
   <<"P","R","O","C","E","D","U","R","E">>,
   <<"F","U","N","C","T","I","O","N">>,
   <<"P","A","C","K","A","G","E">>,
   <<"B","O","D","Y">>,
   <<"T","R","I","G","G","E","R">>,
   <<"T","Y","P","E">>,
   <<"I","S">>,
   <<"A","S">>,
   <<"I","N">>,
   <<"O","U","T">>,
   <<"N","O","C","O","P","Y">>,
   <<"D","E","F","A","U","L","T">>,
   <<"N","U","L","L">>,
   <<"N","O","T">>,
   <<"A","N","D">>,
   <<"B","E","T","W","E","E","N">>,
   <<"L","I","K","E">>,
   <<"E","X","I","S","T","S">>,
   <<"H","A","V","I","N","G">>,
   <<"G","R","O","U","P">>,
   <<"B","Y">>,
   <<"O","R","D","E","R">>,
   <<"A","S","C">>,
   <<"D","E","S","C">>,
   <<"J","O","I","N">>,
   <<"I","N","N","E","R">>,
   <<"L","E","F","T">>,
   <<"R","I","G","H","T">>,
   <<"O","U","T","E","R">>,
   <<"F","U","L","L">>,
   <<"C","R","O","S","S">>,
   <<"O","N">>,
   <<"U","N","I","O","N">>,
   <<"A","L","L">>,
   <<"I","N","T","E","R","S","E","C","T">>,
   <<"M","I","N","U","S">>,
   <<"D","I","S","T","I","N","C","T">>,
   <<"T","A","B","L","E">>,
   <<"A","L","T","E","R">>,
   <<"D","R","O","P">>,
   <<"I","N","D","E","X">>,
   <<"V","I","E","W">>,
   <<"S","E","Q","U","E","N","C","E">>,
   <<"G","R","A","N","T">>,
   <<"R","E","V","O","K","E">>,
   <<"C","O","M","M","I","T">>,
   <<"R","O","L","L","B","A","C","K">>,
   <<"S","A","V","E","P","O","I","N","T">>,
   <<"C","U","R","S","O","R">>,
   <<"O","P","E","N">>,
   <<"F","E","T","C","H">>,
   <<"C","L","O","S","E">>,
   <<"B","U","L","K">>,
   <<"C","O","L","L","E","C","T">>,
   <<"F","O","R","A","L","L">>,
   <<"L","I","M","I","T">>,
   <<"R","O","W","T","Y","P","E">>,
   <<"V","A","R","C","H","A","R","2">>,
   <<"N","U","M","B","E","R">>,
   <<"I","N","T","E","G","E","R">>,
   <<"B","O","O","L","E","A","N">>,
   <<"D","A","T","E">>,
   <<"T","I","M","E","S","T","A","M","P">>,
   <<"C","L","O","B">>,
   <<"B","L","O","B">>,
   <<"C","O","N","S","T","A","N","T">>,
   <<"P","R","A","G","M","A">>,
   <<"A","U","T","O","N","O","M","O","U","S","_","T","R","A","N","S","A","C","T","I","O","N">>,
   <<"R","A","I","S","E">>,
   <<"R","A","I","S","E","_","A","P","P","L","I","C","A","T","I","O","N","_","E","R","R","O","R">>,
   <<"D","B","M","S","_","O","U","T","P","U","T">>,
   <<"P","U","T","_","L","I","N","E">>,
   <<"N","O","_","D","A","T","A","_","F","O","U","N","D">>,
   <<"T","O","O","_","M","A","N","Y","_","R","O","W","S">>,
   <<"O","T","H","E","R","S">>,
   <<"S","Q","L","C","O","D","E">>,
   <<"S","Q","L","E","R","R","M">>,
   <<"E","X","E","C","U","T","E">>,
   <<"I","M","M","E","D","I","A","T","E">>,
   <<"U","S","I","N","G">>,
   <<"R","E","T","U","R","N","I","N","G">>,
   <<"W","I","T","H">>}

\* The loop `segment = segment.replace(/\bKW\b/gi, KW)` over the keywords, on
\* one code segment. Every keyword is made of \w characters only, so /\bKW\b/
\* matches exactly the maximal runs of \w that spell KW in some letter case,
\* and one replacement never makes or breaks a match of another.
RECURSIVE UppercaseSegment(_, _)
UppercaseSegment(segment, k) ==
  IF k >= Len(segment) THEN <<>>
  ELSE IF IsWord(At(segment, k))
       THEN LET e == SkipWord(segment, k)
                word == Substring(segment, k, e)
            IN (IF ToUpper(word) \in keywords THEN ToUpper(word) ELSE word)
               \o UppercaseSegment(segment, e)
  ELSE <<At(segment, k)>> \o UppercaseSegment(segment, k + 1)

UppercaseToken(t) == IF t.type = "code" THEN UppercaseSegment(t.value, 0) ELSE t.value

\* uppercaseKeywords(origLine)
UppercaseKeywords(origLine) ==
  LET tokens == Tokenize(origLine)
  IN Concat([t \in DOMAIN tokens |-> UppercaseToken(tokens[t])])

-----------------------------------------------------------------------------
(* formatPlsql: the indentation pass *)

\* /^\s*KW\b/i
StartsWithWord(t, kw) == WordEndCI(t, kw, SkipSpace(t, 0))

\* /\bKW\s*$/i
EndsWithWord(t, kw) == WordStartCI(t, kw, TrimEndPos(t, Len(t)) - Len(kw))

\* /\bKW\b/i
HasWord(t, kw) == \E k \in 0..(Len(t) - Len(kw)) : WordStartCI(t, kw, k) /\ WordBoundary(t, k + Len(kw))

reBegin(t) == StartsWithWord(t, KW_BEGIN)
reDeclare(t) == StartsWithWord(t, KW_DECLARE)
\* /\b(IS|AS)\s*$/i
reIsInline(t) == EndsWithWord(t, KW_IS) \/ EndsWithWord(t, KW_AS)
reThen(t) == EndsWithWord(t, KW_THEN)
reLoop(t) == EndsWithWord(t, KW_LOOP)
reElse(t) == StartsWithWord(t, KW_ELSE)
reElsif(t) == StartsWithWord(t, KW_ELSIF)
reException(t) == StartsWithWord(t, KW_EXCEPTION)
reWhenException(t) == StartsWithWord(t, KW_WHEN)
reCaseStart(t) == StartsWithWord(t, KW_CASE)

\* /^\s*END\s+CASE\s*;/i
reEndCase(t) ==
  LET a == SkipSpace(t, 0)
      b == SkipSpace(t, a + 3)
      d == SkipSpace(t, b + 4)
  IN MatchCI(t, KW_END, a) /\ b > a + 3 /\ MatchCI(t, KW_CASE, b) /\ d < Len(t) /\ At(t, d) = ";"

\* /^\s*END\s*(IF|LOOP|CASE|)?\s*;/i
reEnd(t) ==
  LET a == SkipSpace(t, 0)
      b == SkipSpace(t, a + 3)
      kw == AltAt(t, <<KW_IF, KW_LOOP, KW_CASE>>, b)
      c == SkipSpace(t, b + Len(kw))
  IN /\ MatchCI(t, KW_END, a)
     /\ \/ b < Len(t) /\ At(t, b) = ";"
        \/ kw # <<>> /\ c < Len(t) /\ At(t, c) = ";"

\* /^\s*END\s+\w+\s*;/i
reEndLabel(t) ==
  LET a == SkipSpace(t, 0)
      b == SkipSpace(t, a + 3)
      c == SkipWord(t, b)
      d == SkipSpace(t, c)
  IN MatchCI(t, KW_END, a) /\ b > a + 3 /\ c > b /\ d < Len(t) /\ At(t, d) = ";"

\* /^\s*\/\s*$/
reSlash(t) == Trim(t) = <<"/">>

\* /^\s*\)\s*;?\s*$/i
reCloseParen(t) ==
  LET a == SkipSpace(t, 0)
      b == SkipSpace(t, a + 1)
  IN /\ a < Len(t)
     /\ At(t, a) = ")"
     /\ \/ b >= Len(t)
        \/ At(t, b) = ";" /\ SkipSpace(t, b + 1) >= Len(t)

\* /\(\s*$/i
reOpenParenEnd(t) == LET e == TrimEndPos(t, Len(t)) IN e > 0 /\ At(t, e - 1) = "("

\* (PROCEDURE|FUNCTION|PACKAGE(\s+BODY)?|TRIGGER|TYPE(\s+BODY)?)\b at k; the
\* optional \s+BODY cannot decide a test, for \b already holds before its \s+
CreateObjectAt(t, k) ==
  \E kw \in {KW_PROCEDURE, KW_FUNCTION, KW_PACKAGE, KW_TRIGGER, KW_TYPE} : WordEndCI(t, kw, k)

\* /^\s*CREATE\s+(OR\s+REPLACE\s+)?(PROCEDURE|...)\b/i
reCreate(t) ==
  LET a == SkipSpace(t, 0)
      b == SkipSpace(t, a + 6)
      c == SkipSpace(t, b + 2)
      d == SkipSpace(t, c + 7)
  IN /\ MatchCI(t, KW_CREATE, a)
     /\ b > a + 6
     /\ \/ CreateObjectAt(t, b)
        \/ /\ MatchCI(t, KW_OR, b)
           /\ c > b + 2
           /\ MatchCI(t, KW_REPLACE, c)
           /\ d > c + 7
           /\ CreateObjectAt(t, d)

\* n copies of the character c
Repeat(c, n) == [k \in 1..n |-> c]

\* dedentBefore of a line, given the amount inherited from the WHEN-branch rule
DedentBefore(t, st, whenDedent) ==
  LET isEndLine == reEnd(t) \/ reEndLabel(t)
      isEndCaseLine == reEndCase(t)
      isElseLine == reElse(t)
  IN IF isEndCaseLine /\ Len(st.caseStack) > 0 THEN st.level - st.caseStack[Len(st.caseStack)]
     ELSE IF isEndLine /\ ~isEndCaseLine THEN whenDedent + 1
     ELSE IF reBegin(t) THEN 1
     ELSE IF reSlash(t) THEN st.level
     ELSE IF reElsif(t) THEN 1
     ELSE IF isElseLine /\ Len(st.caseStack) > 0 THEN whenDedent
     ELSE IF isElseLine THEN 1
     ELSE IF reException(t) THEN 1
     ELSE whenDedent

\* does the line open a CASE whose level is pushed on caseStack
PushesCase(t) ==
  /\ ~reBegin(t)
  /\ ~reDeclare(t)
  /\ ~reCreate(t)
  /\ ~(reIsInline(t) /\ ~reEnd(t))
  /\ ~reThen(t)
  /\ ~reLoop(t)
  /\ ~(reElse(t) /\ ~reElsif(t))
  /\ ~(reElsif(t) /\ reThen(t))
  /\ ~reException(t)
  /\ ~(reWhenException(t) /\ reThen(t))
  /\ \/ reCaseStart(t) /\ ~reEnd(t)
     \/ HasWord(t, KW_CASE) /\ ~HasWord(t, KW_END)

\* indentAfter of a line
IndentAfter(t) ==
  IF reBegin(t) THEN 1
  ELSE IF reDeclare(t) THEN 1
  ELSE IF reCreate(t) /\ reIsInline(t) THEN 1
  ELSE IF reCreate(t) THEN 0
  ELSE IF reIsInline(t) /\ ~reEnd(t) THEN 1
  ELSE IF reThen(t) THEN 1
  ELSE IF reLoop(t) THEN 1
  ELSE IF reElse(t) /\ ~reElsif(t) THEN 1
  ELSE IF reElsif(t) /\ reThen(t) THEN 1
  ELSE IF reException(t) THEN 1
  ELSE IF reWhenException(t) /\ reThen(t) THEN 1
  ELSE IF PushesCase(t) THEN 1
  ELSE 0

\* as IndentLine, were level and parenCallDepth lowered without the tests
\* that keep them at zero
IndentLineUnclamped(origLine, sLine, st, tab, upper) ==
  LET t == Trim(sLine)
      trimmedOrig == Trim(origLine)
      isEndLine == reEnd(t) \/ reEndLabel(t)
      isEndCaseLine == reEndCase(t)
      isWhenThenLine == reWhenException(t) /\ reThen(t)
      isElseLine == reElse(t)
      isCloseParenLine == reCloseParen(t)
      leavesBranch == st.inWhenThenBranch /\ (isWhenThenLine \/ isElseLine \/ isEndLine)
      dedentBefore == DedentBefore(t, st, IF leavesBranch THEN 1 ELSE 0)
      popsCase == isEndCaseLine /\ Len(st.caseStack) > 0
      stack1 == IF popsCase THEN SubSeq(st.caseStack, 1, Len(st.caseStack) - 1) ELSE st.caseStack
      level1 == st.level - dedentBefore
      continuationIndent == IF isCloseParenLine THEN st.parenCallDepth - 1
                            ELSE st.parenCallDepth
      indentStr == Repeat(SP, Max(0, tab * (level1 + continuationIndent)))
      outputLine == IF upper THEN UppercaseKeywords(trimmedOrig) ELSE trimmedOrig
      depth1 == IF reOpenParenEnd(t) /\ ~isCloseParenLine THEN st.parenCallDepth + 1
                ELSE st.parenCallDepth
      depth2 == IF isCloseParenLine THEN depth1 - 1 ELSE depth1
  IN [line |-> indentStr \o outputLine,
      st |-> [level |-> level1 + IndentAfter(t),
              inWhenThenBranch |-> IF isWhenThenLine THEN TRUE
                                   ELSE IF leavesBranch THEN FALSE
                                   ELSE st.inWhenThenBranch,
              parenCallDepth |-> depth2,
              caseStack |-> IF PushesCase(t) THEN Append(stack1, level1) ELSE stack1]]

\* the body of the loop over origLines for a line that is not blank: the line
\* pushed on result and the indentation state after it
IndentLine(origLine, sLine, st, tab, upper) ==
  LET t == Trim(sLine)
      trimmedOrig == Trim(origLine)
      isEndLine == reEnd(t) \/ reEndLabel(t)
      isEndCaseLine == reEndCase(t)
      isWhenThenLine == reWhenException(t) /\ reThen(t)
      isElseLine == reElse(t)
      isCloseParenLine == reCloseParen(t)
      leavesBranch == st.inWhenThenBranch /\ (isWhenThenLine \/ isElseLine \/ isEndLine)
      dedentBefore == DedentBefore(t, st, IF leavesBranch THEN 1 ELSE 0)
      popsCase == isEndCaseLine /\ Len(st.caseStack) > 0
      stack1 == IF popsCase THEN SubSeq(st.caseStack, 1, Len(st.caseStack) - 1) ELSE st.caseStack
      level1 == Max(0, st.level - dedentBefore)
      continuationIndent == IF isCloseParenLine THEN Max(0, st.parenCallDepth - 1)
                            ELSE st.parenCallDepth
      indentStr == Repeat(SP, tab * (level1 + continuationIndent))
      outputLine == IF upper THEN UppercaseKeywords(trimmedOrig) ELSE trimmedOrig
      depth1 == IF reOpenParenEnd(t) /\ ~isCloseParenLine THEN st.parenCallDepth + 1
                ELSE st.parenCallDepth
      depth2 == IF isCloseParenLine /\ depth1 > 0 THEN depth1 - 1 ELSE depth1
  IN [line |-> indentStr \o outputLine,
      st |-> [level |-> level1 + IndentAfter(t),
              inWhenThenBranch |-> IF isWhenThenLine THEN TRUE
                                   ELSE IF leavesBranch THEN FALSE
                                   ELSE st.inWhenThenBranch,
              parenCallDepth |-> depth2,
              caseStack |-> IF PushesCase(t) THEN Append(stack1, level1) ELSE stack1]]

\* while (result.length > 0 && result[result.length - 1] === '') result.pop();
RECURSIVE DropTrailingEmpty(_)
DropTrailingEmpty(ls) ==
  IF Len(ls) > 0 /\ ls[Len(ls)] = <<>> THEN DropTrailingEmpty(SubSeq(ls, 1, Len(ls) - 1)) ELSE ls

-----------------------------------------------------------------------------
(* formatPlsql: the query alignment pass *)

PAD_WIDTH == 7

KW_ORDER_BY == <<"O","R","D","E","R"," ","B","Y">>
KW_GROUP_BY == <<"G","R","O","U","P"," ","B","Y">>

sqlClauseKws == <<KW_FROM, KW_WHERE, KW_INTO, KW_SET, KW_ORDER_BY, KW_GROUP_BY, KW_HAVING>>
sqlCondKws == <<KW_AND, KW_OR>>

\* the first entry of kws for which new RegExp('^(' + kw + ')\\b', 'i') matches, <<>> if none
FirstKeyword(kws, trimmed) ==
  IF \E n \in DOMAIN kws : WordEndCI(trimmed, kws[n], 0)
  THEN kws[CHOOSE n \in DOMAIN kws :
             WordEndCI(trimmed, kws[n], 0) /\ \A m \in 1..(n - 1) : ~WordEndCI(trimmed, kws[m], 0)]
  ELSE <<>>

\* prevNE: the previous line of result that is not blank, trimmed and upper-cased
RECURSIVE PrevNonEmpty(_, _)
PrevNonEmpty(lines, pp) ==
  IF pp < 1 THEN <<>>
  ELSE IF Trim(lines[pp]) # <<>> THEN ToUpper(Trim(lines[pp]))
  ELSE PrevNonEmpty(lines, pp - 1)

\* the position of the first match of /\(\s*SELECT\b/i in line, -1 if none
RECURSIVE SubSelectAt(_, _)
SubSelectAt(line, k) ==
  IF k >= Len(line) THEN -1
  ELSE IF At(line, k) = "(" /\ WordEndCI(line, KW_SELECT, SkipSpace(line, k + 1)) THEN k
  ELSE SubSelectAt(line, k + 1)

\* kw padded with spaces to width n
Padded(kw, n) == kw \o Repeat(SP, Max(0, n - Len(kw)))

\* /;\s*$/ or /\)\s*LOOP\s*$/i (which /\)\s*\)\s*LOOP\s*$/i implies)
EndsSqlBlock(trimmed) ==
  LET e == TrimEndPos(trimmed, Len(trimmed))
      x == TrimEndPos(trimmed, e - 4)
  IN \/ e > 0 /\ At(trimmed, e - 1) = ";"
     \/ MatchCI(trimmed, KW_LOOP, e - 4) /\ x > 0 /\ At(trimmed, x - 1) = ")"

\* the line that opens a sub-SELECT: the block pushed and the SELECT keyword padded
SubSelectLine(line, k, st) ==
  LET s == SkipSpace(line, k + 1)
      matched == Substring(line, k, s + 6)
      selectCol == IndexOf(line, matched, 0) + IndexOf(matched, <<"S">>, 0)
      selIdx == IndexOf(ToUpper(line), KW_SELECT, 0)
  IN [line |-> Substring(line, 0, selIdx) \o KW_SELECT \o <<SP>>
                 \o TrimStart(Substring(line, selIdx + 6, Len(line))),
      st |-> [sqlBlockStack |-> st.sqlBlockStack \o st.currentSqlBlock,
              currentSqlBlock |-> <<[selectCol |-> selectCol, whereCondCol |-> -1,
                                     isSubSelect |-> TRUE]>>]]

\* the rewriting of a clause or condition line inside the block cur
AlignedLine(line, trimmed, cur, matchedKw, isClauseKw) ==
  LET leadingSpaces == Substring(line, 0, Len(line) - Len(trimmed))
      kwText == ToUpper(Substring(trimmed, 0, Len(matchedKw)))
      kwRest == Substring(trimmed, SkipSpace(trimmed, Len(matchedKw)), Len(trimmed))
  IN IF ~cur.isSubSelect THEN leadingSpaces \o Padded(kwText, PAD_WIDTH) \o kwRest
     ELSE IF isClauseKw THEN Repeat(SP, cur.selectCol) \o Padded(kwText, PAD_WIDTH) \o kwRest
     ELSE IF cur.whereCondCol > 0
          THEN Repeat(SP, cur.whereCondCol) \o Padded(kwText, PAD_WIDTH - 3) \o kwRest
     ELSE Repeat(SP, cur.selectCol) \o Padded(kwText, PAD_WIDTH) \o kwRest

\* the body of the loop over result for line number n (1-based): the line as
\* rewritten and the alignment state after it
SqlAlignLine(lines, n, st) ==
  LET line == lines[n]
      trimmed == TrimStart(line)
      sub == SubSelectAt(line, 0)
      startsSql == /\ st.currentSqlBlock = <<>>
                   /\ \E kw \in {KW_SELECT, KW_INSERT, KW_UPDATE, KW_DELETE, KW_MERGE} :
                        WordEndCI(trimmed, kw, 0)
      current == IF startsSql
                 THEN <<[selectCol |-> -1, whereCondCol |-> -1, isSubSelect |-> FALSE]>>
                 ELSE st.currentSqlBlock
      clause == FirstKeyword(sqlClauseKws, trimmed)
      isClauseKw == /\ clause # <<>>
                    /\ ~(clause = KW_INTO /\ WordEndCI(PrevNonEmpty(lines, n - 1), KW_INSERT, 0))
      cond == IF isClauseKw THEN <<>> ELSE FirstKeyword(sqlCondKws, trimmed)
      isCondKw == cond # <<>>
      matchedKw == IF isClauseKw THEN clause ELSE cond
      cur == current[1]
      newLine == IF isClauseKw \/ isCondKw
                 THEN AlignedLine(line, trimmed, cur, matchedKw, isClauseKw)
                 ELSE IF WordEndCI(trimmed, KW_SELECT, 0) /\ ~cur.isSubSelect
                 THEN Substring(line, 0, Len(line) - Len(trimmed)) \o Padded(KW_SELECT, PAD_WIDTH)
                        \o Substring(trimmed, SkipSpace(trimmed, 6), Len(trimmed))
                 ELSE line
      cur1 == IF isClauseKw /\ cur.isSubSelect /\ matchedKw = KW_WHERE
              THEN [cur EXCEPT !.whereCondCol = cur.selectCol + PAD_WIDTH]
              ELSE cur
      stack == st.sqlBlockStack
  IN IF sub >= 0 THEN SubSelectLine(line, sub, st)
     ELSE IF current = <<>> THEN [line |-> line, st |-> st]
     ELSE [line |-> newLine,
           st |-> IF ~EndsSqlBlock(trimmed)
                  THEN [sqlBlockStack |-> stack, currentSqlBlock |-> <<cur1>>]
                  ELSE IF Len(stack) > 0
                  THEN [sqlBlockStack |-> SubSeq(stack, 1, Len(stack) - 1),
                        currentSqlBlock |-> <<stack[Len(stack)]>>]
                  ELSE [sqlBlockStack |-> stack, currentSqlBlock |-> <<>>]]

-----------------------------------------------------------------------------
(* formatPlsql: the parenthesis continuation pass *)

\* /^(SELECT|FROM|...|ORDER\s+BY|GROUP\s+BY|...|FOR)\b/i
isSqlOrBlockKw(t) ==
  \/ \E kw \in {KW_SELECT, KW_FROM, KW_WHERE, KW_INTO, KW_SET, KW_HAVING, KW_AND, KW_OR,
               KW_BEGIN, KW_END, KW_LOOP, KW_IF, KW_THEN, KW_ELSE, KW_ELSIF, KW_EXCEPTION,
               KW_WHEN, KW_DECLARE, KW_CASE, KW_FOR} : WordEndCI(t, kw, 0)
  \/ \E kw \in {KW_ORDER, KW_GROUP} :
       /\ MatchCI(t, kw, 0)
       /\ SkipSpace(t, 5) > 5
       /\ WordEndCI(t, KW_BY, SkipSpace(t, 5))

\* while (contentStart < paLine.length && paLine[contentStart] === ' ') contentStart++;
RECURSIVE ContentStart(_, _)
ContentStart(line, k) == IF k < Len(line) /\ At(line, k) = SP THEN ContentStart(line, k + 1) ELSE k

\* the scan of one line for parentheses, from position pci on; str is the
\* quote character of the string the scan is in, "" outside strings
RECURSIVE ScanParens(_, _, _, _, _)
ScanParens(line, pci, str, localOpens, stack) ==
  IF pci >= Len(line) THEN [localOpens |-> localOpens, stack |-> stack]
  ELSE LET pch == At(line, pci)
       IN IF str # ""
          THEN IF pch = str
               THEN IF pci + 1 < Len(line) /\ At(line, pci + 1) = str
                    THEN ScanParens(line, pci + 2, str, localOpens, stack)
                    ELSE ScanParens(line, pci + 1, "", localOpens, stack)
               ELSE ScanParens(line, pci + 1, str, localOpens, stack)
          ELSE IF pch = QUOTE \/ pch = "\""
               THEN ScanParens(line, pci + 1, pch, localOpens, stack)
          ELSE IF pch = "("
               THEN ScanParens(line, pci + 1, str,
                               Append(localOpens, ContentStart(line, pci + 1)), stack)
          ELSE IF pch = ")"
               THEN IF Len(localOpens) > 0
                    THEN ScanParens(line, pci + 1, str,
                                    SubSeq(localOpens, 1, Len(localOpens) - 1), stack)
                    ELSE IF Len(stack) > 0
                    THEN ScanParens(line, pci + 1, str, localOpens,
                                    SubSeq(stack, 1, Len(stack) - 1))
                    ELSE ScanParens(line, pci + 1, str, localOpens, stack)
          ELSE ScanParens(line, pci + 1, str, localOpens, stack)

\* the body of the loop over result for one line: the line as realigned and
\* the stack of target columns after it
ParenAlignLine(paLine, stack) ==
  LET paTrimmed == TrimStart(paLine)
      realign == /\ Len(stack) > 0
                 /\ At(paTrimmed, 0) # ")"
                 /\ ~isSqlOrBlockKw(paTrimmed)
      line1 == IF realign THEN Repeat(SP, stack[Len(stack)]) \o paTrimmed ELSE paLine
      scan == ScanParens(line1, 0, "", <<>>, stack)
  IN IF paTrimmed = <<>> THEN [line |-> paLine, stack |-> stack]
     ELSE [line |-> line1, stack |-> scan.stack \o scan.localOpens]

-----------------------------------------------------------------------------
(* formatPlsql: the trailing closer pass *)

\* /^[\)\s;]+$/.test(trTrimmed) && trTrimmed.length > 0
IsCloserOnly(trTrimmed) ==
  /\ Len(trTrimmed) > 0
  /\ \A k \in DOMAIN trTrimmed : trTrimmed[k] = ")" \/ trTrimmed[k] = ";" \/ IsSpace(trTrimmed[k])

\* the index of the last line of final that is not blank, 0 if none
RECURSIVE LastNonEmpty(_, _)
LastNonEmpty(final, back) ==
  IF back < 1 THEN 0
  ELSE IF Trim(final[back]) # <<>> THEN back
  ELSE LastNonEmpty(final, back - 1)

\* as MergeCloser, were the closers appended to the last line of final, blank
\* or not
MergeCloserToLast(final, trLine) ==
  LET trTrimmed == Trim(trLine)
  IN IF IsCloserOnly(trTrimmed) /\ Len(final) > 0
     THEN [final EXCEPT ![Len(final)] = final[Len(final)] \o trTrimmed]
     ELSE Append(final, trLine)

\* the body of the loop over result for one line: finalResult after it
MergeCloser(final, trLine) ==
  LET trTrimmed == Trim(trLine)
      back == LastNonEmpty(final, Len(final))
  IN IF IsCloserOnly(trTrimmed) /\ back > 0
     THEN [final EXCEPT ![back] = final[back] \o trTrimmed]
     ELSE Append(final, trLine)

-----------------------------------------------------------------------------
(* Inputs *)

MaxTokPieces == 4
MaxSplitPieces == 4
MaxFmtPieces == 3

RECURSIVE PieceStrings(_, _)
PieceStrings(P, n) ==
  IF n = 0 THEN {<<>>}
  ELSE LET prev == PieceStrings(P, n - 1)
       IN prev \cup {s \o q : s \in prev, q \in P}

TokPieces ==
  { <<"-">>, <<"/">>, <<"*">>, <<QUOTE>>, <<"q", QUOTE>>, <<NL>>, <<"[">>, <<"]">>, <<"a">> }

TokInputs == PieceStrings(TokPieces, MaxTokPieces)

SplitPieces ==
  { <<"I","F"," ","a"," ","T","H","E","N"," ">>,
    <<"x",";"," ">>,
    <<"E","N","D"," ","I","F",";">>,
    <<"L","O","O","P"," ">>,
    <<"\n">>,
    <<"y"," ","F","R","O","M"," ","t"," ">> }

SplitInputs == PieceStrings(SplitPieces, MaxSplitPieces)

FmtPieces ==
  { <<"/","*">>,
    <<"*","/">>,
    <<"'">>,
    <<"\n">>,
    <<" ","b","e","g","i","n">>,
    <<")">>,
    <<"(">>,
    <<";"," ","a">>,
    <<"-","-">>,
    <<CR>> }

\* well-formed programs: blocks nested one inside the other, NULL; innermost
MaxDepth == 3

BlockKinds == {"IF", "LOOP", "BEGIN", "CASE"}

OpenerLines(kind) ==
  CASE kind = "IF" -> <<<<"I","F"," ","x"," ","T","H","E","N">>>>
    [] kind = "LOOP" -> <<<<"L","O","O","P">>>>
    [] kind = "BEGIN" -> <<<<"B","E","G","I","N">>>>
    [] kind = "CASE" -> <<<<"C","A","S","E"," ","x">>,
                          <<"W","H","E","N"," ","1"," ","T","H","E","N">>>>

CloserLine(kind) ==
  CASE kind = "IF" -> <<"E","N","D"," ","I","F",";">>
    [] kind = "LOOP" -> <<"E","N","D"," ","L","O","O","P",";">>
    [] kind = "BEGIN" -> <<"E","N","D",";">>
    [] kind = "CASE" -> <<"E","N","D"," ","C","A","S","E",";">>

RECURSIVE NestedBlock(_)
NestedBlock(chain) ==
  IF chain = <<>> THEN <<<<"N","U","L","L",";">>>>
  ELSE OpenerLines(Head(chain)) \o NestedBlock(Tail(chain)) \o <<CloserLine(Head(chain))>>

RECURSIVE Chains(_)
Chains(n) ==
  IF n = 0 THEN {<<>>}
  ELSE LET prev == Chains(n - 1)
       IN prev \cup {<<k>> \o c : k \in BlockKinds, c \in prev}

BlockInputs == {JoinLines(NestedBlock(c)) : c \in Chains(MaxDepth) \ {<<>>}}

\* a call whose argument is a call, one line per opening and per closing
\* parenthesis, alone or inside a BEGIN block
CallLines ==
  {<<outer, inner, <<"p"," ","=",">"," ","1">>, <<")">>, <<")",";">>>> :
      outer \in {<<"f","(">>, <<"x"," ",":","="," ","f","(">>},
      inner \in {<<"g"," ","(">>, <<"g","(">>}}

CallInputs ==
  {JoinLines(c) : c \in CallLines}
    \cup {JoinLines(<<<<"B","E","G","I","N">>>> \o c \o <<<<"E","N","D",";">>>>) : c \in CallLines}

\* a line of text, then blank lines, then a line of closing parentheses
MaxGap == 1

CloserInputs ==
  {JoinLines(<<first>> \o [g \in 1..gap |-> <<>>] \o <<closer>>) :
      first \in {<<"a">>, <<"f","(","b">>},
      gap \in 0..MaxGap,
      closer \in {<<")">>, <<")",";">>}}

\* an assignment of a literal whose content looks like code, followed or not
\* by the assignment of a second literal
LiteralDelims ==
  { <<<<"/","*">>, <<"*","/">>>>,
     <<<<"'">>, <<"'">>>>,
     <<<<"q","'","[">>, <<"]","'">>>>,
     <<<<"-","-">>, <<>>>> }

LiteralContents ==
  { <<"B","E","G","I","N"," ","E","N","D"," ","I","F">>,
     <<"a">> \o <<NL>> \o <<" ","b","e","g","i","n">>,
     <<"_","_","_","S","T","R","1","_","_","_">>,
     <<"(","s","e","l","e","c","t"," "," ","x">> }

LiteralInputs ==
  {<<"x"," ",":","="," ">> \o d[1] \o c \o d[2] \o <<";">> \o t :
      d \in LiteralDelims, c \in LiteralContents,
      t \in {<<>>, <<NL>> \o <<"y"," ",":","="," ","'","b","'",";">>}}

FmtInputs ==
  PieceStrings(FmtPieces, MaxFmtPieces)
    \cup BlockInputs \cup CallInputs \cup CloserInputs \cup LiteralInputs

-----------------------------------------------------------------------------
(* The state machine *)

NoInd == [level |-> 0, inWhenThenBranch |-> FALSE, parenCallDepth |-> 0, caseStack |-> <<>>]
NoSql == [sqlBlockStack |-> <<>>, currentSqlBlock |-> <<>>]

InitLocals ==
  /\ tok = TokStart
  /\ stringStore = <<>>
  /\ origLines = <<>>
  /\ strippedLines = <<>>
  /\ result = <<>>
  /\ p = 0
  /\ ind = NoInd
  /\ sql = NoSql
  /\ parenAlignStack = <<>>
  /\ finalResult = <<>>
  /\ out = <<>>
  /\ runs = 0

\* a call of tokenize(s) or stripNonCode(s)
InitTok ==
  /\ call \in {"tokenize", "stripNonCode"}
  /\ input \in TokInputs
  /\ upperCase = TRUE
  /\ tabSize = 2
  /\ pc = "tokenize"
  /\ code = input
  /\ InitLocals
  /\ returned = <<>>

\* the rule sequence of the Statement Splitter run on a text, then on its own output
InitSplit ==
  /\ call = "splitter"
  /\ input \in SplitInputs
  /\ upperCase = TRUE
  /\ tabSize = 2
  /\ pc = "rejoin"
  /\ code = input
  /\ InitLocals
  /\ returned = <<>>

\* a call of formatPlsql(s, options)
InitFmt ==
  /\ call = "formatPlsql"
  /\ input \in FmtInputs
  /\ upperCase \in BOOLEAN
  /\ tabSize = 2
  /\ pc = "start"
  /\ code = input
  /\ InitLocals
  /\ returned = <<>>

lineVars == <<origLines, strippedLines, result, p, ind, sql, parenAlignStack, finalResult>>
fmtLocals == <<stringStore, lineVars>>
args == <<call, input, upperCase, tabSize>>

\* one iteration of tokenize's scan loop
TokenizeStep ==
  /\ pc = "tokenize"
  /\ tok.i < Len(code)
  /\ tok' = TokStep(code, tok)
  /\ UNCHANGED <<args, returned, pc, code, fmtLocals, out, runs>>

\* the loop has ended: flush the pending code segment and return the tokens
TokenizeReturn ==
  /\ pc = "tokenize"
  /\ tok.i >= Len(code)
  /\ tok' = [tok EXCEPT !.tokens = FlushBuf(tok), !.buf = <<>>]
  /\ pc' = IF call = "tokenize" THEN "done"
           ELSE IF call = "stripNonCode" THEN "mask"
           ELSE "protect"
  /\ UNCHANGED <<args, returned, code, fmtLocals, out, runs>>

\* stripNonCode: the loop over the tokens
Mask ==
  /\ pc = "mask"
  /\ out' = MaskTokens(tok.tokens)
  /\ pc' = "done"
  /\ UNCHANGED <<args, returned, code, tok, fmtLocals, runs>>

\* code.replace(/\r\n/g, '\n').replace(/\r/g, '\n')
NormalizeLineEndings(s) ==
  LET kept == SelectSeq([k \in 1..Len(s) |-> k],
                        LAMBDA k : ~(s[k] = NL /\ k > 1 /\ s[k - 1] = CR))
  IN [j \in 1..Len(kept) |-> IF s[kept[j]] = CR THEN NL ELSE s[kept[j]]]

\* formatPlsql up to the call of tokenize: the early return for empty or
\* blank input, else the normalisation of line endings
FormatStart ==
  /\ pc = "start"
  /\ IF Trim(code) = <<>>
     THEN /\ out' = code
          /\ pc' = "done"
          /\ UNCHANGED code
     ELSE /\ code' = NormalizeLineEndings(code)
          /\ pc' = "tokenize"
          /\ UNCHANGED out
  /\ UNCHANGED <<args, returned, tok, fmtLocals, runs>>

\* the literals are replaced by placeholders
Protect ==
  /\ pc = "protect"
  /\ code' = Protected(tok.tokens).code
  /\ stringStore' = Protected(tok.tokens).store
  /\ pc' = "rejoin"
  /\ UNCHANGED <<args, returned, tok, lineVars, out, runs>>

\* rule 1
RejoinEnd ==
  /\ pc = "rejoin"
  /\ code' = ReplaceAll("rejoinEnd", code)
  /\ pc' = "semicolon"
  /\ UNCHANGED <<args, returned, tok, fmtLocals, out, runs>>

\* rule 2: one pass of the do-while loop and its test
SemicolonSplitPass ==
  /\ pc = "semicolon"
  /\ LET r == SemicolonPass(code)
     IN /\ code' = r.code
        /\ pc' = IF r.thrown THEN "thrown"
                 ELSE IF r.code # code THEN "semicolon"
                 ELSE "keywords"
  /\ UNCHANGED <<args, returned, tok, fmtLocals, out, runs>>

\* rules 3 to 10
SplitKeywordRules ==
  /\ pc = "keywords"
  /\ code' = SplitKeywords(code)
  /\ pc' = IF call = "splitter" THEN "split" ELSE "restore"
  /\ UNCHANGED <<args, returned, tok, fmtLocals, out, runs>>

\* the rule sequence has run: keep the text of the first run and run the
\* sequence once more on it
SplitterAgain ==
  /\ pc = "split"
  /\ runs' = runs + 1
  /\ IF runs = 0
     THEN /\ out' = code
          /\ pc' = "rejoin"
     ELSE /\ pc' = "done"
          /\ UNCHANGED out
  /\ UNCHANGED <<args, returned, code, tok, fmtLocals>>

\* the literals are restored, the text and its mask are split into lines
Restore ==
  /\ pc = "restore"
  /\ code' = Restored(code, stringStore)
  /\ origLines' = SplitLines(code')
  /\ strippedLines' = SplitLines(StripNonCode(code'))
  /\ result' = <<>>
  /\ ind' = NoInd
  /\ p' = 0
  /\ pc' = "indent"
  /\ UNCHANGED <<args, returned, tok, stringStore, sql, parenAlignStack, finalResult, out, runs>>

\* one iteration of the loop over origLines. strippedLines[i] is undefined
\* when the mask has fewer lines, and calling its trim throws.
IndentStep ==
  /\ pc = "indent"
  /\ p < Len(origLines)
  /\ IF p >= Len(strippedLines)
     THEN /\ pc' = "thrown"
          /\ UNCHANGED <<result, ind, p>>
     ELSE /\ IF Trim(origLines[p + 1]) = <<>>
             THEN /\ result' = Append(result, <<>>)
                  /\ UNCHANGED ind
             ELSE LET r == IndentLine(origLines[p + 1], strippedLines[p + 1], ind,
                                      tabSize, upperCase)
                  IN /\ result' = Append(result, r.line)
                     /\ ind' = r.st
          /\ p' = p + 1
          /\ UNCHANGED pc
  /\ UNCHANGED <<args, returned, code, tok, stringStore, origLines, strippedLines, sql,
                 parenAlignStack, finalResult, out, runs>>

\* the loop over origLines has ended: trailing empty lines are removed
IndentDone ==
  /\ pc = "indent"
  /\ p >= Len(origLines)
  /\ result' = DropTrailingEmpty(result)
  /\ sql' = NoSql
  /\ p' = 0
  /\ pc' = "sqlAlign"
  /\ UNCHANGED <<args, returned, code, tok, stringStore, origLines, strippedLines, ind,
                 parenAlignStack, finalResult, out, runs>>

\* one iteration of the query alignment loop over result
SqlAlignStep ==
  /\ pc = "sqlAlign"
  /\ p < Len(result)
  /\ LET r == SqlAlignLine(result, p + 1, sql)
     IN /\ result' = [result EXCEPT ![p + 1] = r.line]
        /\ sql' = r.st
  /\ p' = p + 1
  /\ UNCHANGED <<args, returned, pc, code, tok, stringStore, origLines, strippedLines, ind,
                 parenAlignStack, finalResult, out, runs>>

\* the query alignment loop has ended
SqlAlignDone ==
  /\ pc = "sqlAlign"
  /\ p >= Len(result)
  /\ parenAlignStack' = <<>>
  /\ p' = 0
  /\ pc' = "parenAlign"
  /\ UNCHANGED <<args, returned, code, tok, stringStore, origLines, strippedLines, result, ind,
                 sql, finalResult, out, runs>>

\* one iteration of the parenthesis continuation loop over result
ParenAlignStep ==
  /\ pc = "parenAlign"
  /\ p < Len(result)
  /\ LET r == ParenAlignLine(result[p + 1], parenAlignStack)
     IN /\ result' = [result EXCEPT ![p + 1] = r.line]
        /\ parenAlignStack' = r.stack
  /\ p' = p + 1
  /\ UNCHANGED <<args, returned, pc, code, tok, stringStore, origLines, strippedLines, ind,
                 sql, finalResult, out, runs>>

\* the parenthesis continuation loop has ended
ParenAlignDone ==
  /\ pc = "parenAlign"
  /\ p >= Len(result)
  /\ finalResult' = <<>>
  /\ p' = 0
  /\ pc' = "closers"
  /\ UNCHANGED <<args, returned, code, tok, stringStore, origLines, strippedLines, result, ind,
                 sql, parenAlignStack, out, runs>>

\* one iteration of the trailing closer loop over result
MergeCloserStep ==
  /\ pc = "closers"
  /\ p < Len(result)
  /\ finalResult' = MergeCloser(finalResult, result[p + 1])
  /\ p' = p + 1
  /\ UNCHANGED <<args, returned, pc, code, tok, stringStore, origLines, strippedLines, result, ind,
                 sql, parenAlignStack, out, runs>>

\* return finalResult.join('\n') + '\n'
FormatReturn ==
  /\ pc = "closers"
  /\ p >= Len(result)
  /\ out' = JoinLines(finalResult) \o <<NL>>
  /\ pc' = "done"
  /\ UNCHANGED <<args, returned, code, tok, fmtLocals, runs>>

NextTok == TokenizeStep \/ TokenizeReturn \/ Mask

NextSplit == RejoinEnd \/ SemicolonSplitPass \/ SplitKeywordRules \/ SplitterAgain

NextFmt ==
  \/ FormatStart
  \/ TokenizeStep
  \/ TokenizeReturn
  \/ Protect
  \/ RejoinEnd
  \/ SemicolonSplitPass
  \/ SplitKeywordRules
  \/ Restore
  \/ IndentStep
  \/ IndentDone
  \/ SqlAlignStep
  \/ SqlAlignDone
  \/ ParenAlignStep
  \/ ParenAlignDone
  \/ MergeCloserStep
  \/ FormatReturn

SpecTok == InitTok /\ [][NextTok]_vars

SpecSplit == InitSplit /\ [][NextSplit]_vars

SpecFmt == InitFmt /\ [][NextFmt]_vars

-----------------------------------------------------------------------------
(* Claims about the tokenizer and the mask *)

\* number of characters in the tokens before token n
RECURSIVE TokenOffset(_, _)
TokenOffset(tokens, n) ==
  IF n <= 1 THEN 0 ELSE TokenOffset(tokens, n - 1) + Len(tokens[n - 1].value)

\* the 1-based position k of the scanned text lies in a code segment
InCodeSegment(tokens, k) ==
  \E n \in DOMAIN tokens :
    /\ tokens[n].type = "code"
    /\ TokenOffset(tokens, n) < k
    /\ k <= TokenOffset(tokens, n) + Len(tokens[n].value)

\* C3: tokenizer round trip. Concatenating the values of the segments that
\* tokenize(s) returns gives exactly s, and while the scan runs the segments
\* pushed so far followed by the pending buffer are exactly the text scanned.
TokenizerRoundTrip ==
  call = "tokenize" =>
    /\ pc = "tokenize" =>
         TokenValues(tok.tokens) \o tok.buf = Substring(code, 0, tok.i)
    /\ pc = "done" => (TokenValues(tok.tokens) = input /\ tok.tokens = Tokenize(input))

EndsWith(s, suffix) ==
  Len(s) >= Len(suffix) /\ SubSeq(s, Len(s) - Len(suffix) + 1, Len(s)) = suffix

\* C3 witness: tokenize has returned for an input made of code followed by a
\* block comment that is never closed
TokenizerRoundTripWitness ==
  /\ call = "tokenize"
  /\ pc = "done"
  /\ Len(tok.tokens) = 2
  /\ tok.tokens[1].type = "code"
  /\ tok.tokens[2].type = "block_comment"
  /\ ~EndsWith(tok.tokens[2].value, <<"*", "/">>)

\* C4: mask invariant. stripNonCode(s) has the length of s, a newline wherever
\* s has one, the character of s at every position of a code segment and a
\* space at every other position; s and its mask split into the same number of
\* lines, line by line of equal length.
MaskInvariant ==
  (call = "stripNonCode" /\ pc = "done") =>
    /\ Len(out) = Len(input)
    /\ \A k \in 1..Len(input) :
         /\ input[k] = NL => out[k] = NL
         /\ InCodeSegment(tok.tokens, k) => out[k] = input[k]
         /\ (~InCodeSegment(tok.tokens, k) /\ input[k] # NL) => out[k] = SP
    /\ Len(SplitLines(out)) = Len(SplitLines(input))
    /\ \A n \in 1..Len(SplitLines(input)) :
         Len(SplitLines(out)[n]) = Len(SplitLines(input)[n])

\* C4 witness: stripNonCode has returned for an input with a newline inside a
\* comment or string and a blanked character after it
MaskInvariantWitness ==
  /\ call = "stripNonCode"
  /\ pc = "done"
  /\ \E k \in 1..Len(input) :
       /\ input[k] = NL
       /\ ~InCodeSegment(tok.tokens, k)
       /\ k < Len(input)
       /\ input[k + 1] \notin {NL, SP}
       /\ out[k + 1] = SP

-----------------------------------------------------------------------------
(* Claims about the Statement Splitter *)

\* C5: idempotence of the Statement Splitter. The rule sequence applied to its
\* own output gives the text of the first run.
SplitterIdempotent ==
  (call = "splitter" /\ pc = "done") => code = out

-----------------------------------------------------------------------------
(* Claims about formatPlsql *)

\* formatPlsql has returned the formatted text of an input that is not blank
Returned == call = "formatPlsql" /\ pc = "done" /\ Trim(input) # <<>>

\* the lines of the text given and of the text returned, the latter without
\* its final newline
InLines == SplitLines(NormalizeLineEndings(input))
OutLines == SplitLines(Substring(out, 0, Len(out) - 1))

IndentOf(line) == Len(line) - Len(TrimStart(line))

Occurs(pat, s) == \E k \in 0..(Len(s) - Len(pat)) : StartsAt(s, pat, k)

Squeeze(s) == SelectSeq(s, LAMBDA c : ~IsSpace(c))

\* the strings and comments of the input that are closed: a line comment, a
\* block comment up to its */, a string up to its closing quote
IsClosed(t) ==
  CASE t.type = "line_comment" -> TRUE
    [] t.type = "block_comment" -> Len(t.value) >= 4 /\ EndsWith(t.value, <<"*", "/">>)
    [] t.type = "string" -> Len(t.value) >= 2 /\ t.value[Len(t.value)] = QUOTE
    [] OTHER -> FALSE

Literals == {n \in DOMAIN tok.tokens : IsClosed(tok.tokens[n])}

\* C1: literals are left unchanged. The text of every string and comment of
\* the input stands, character for character, in the text formatPlsql returns.
LiteralsUnchanged ==
  Returned => \A n \in Literals : Occurs(tok.tokens[n].value, out)

FirstWord(t) == ToUpper(Substring(t, 0, SkipWord(t, 0)))

IsOpenerLine(t) == FirstWord(t) \in {KW_IF, KW_LOOP, KW_BEGIN, KW_CASE}
IsCloserLine(t) == FirstWord(t) = KW_END

\* the block keyword a closer line names: END IF; closes IF, END; closes BEGIN
ClosedKind(t) ==
  LET w == FirstWord(TrimStart(Substring(t, 3, Len(t))))
  IN IF w = <<>> THEN KW_BEGIN ELSE w

\* every opener of the lines from n on has its matching closer; stack holds
\* the keywords of the blocks open at line n
RECURSIVE WellFormed(_, _, _)
WellFormed(lines, n, stack) ==
  IF n > Len(lines) THEN stack = <<>>
  ELSE LET t == Trim(lines[n])
       IN IF IsCloserLine(t)
          THEN /\ stack # <<>>
               /\ ClosedKind(t) = Head(stack)
               /\ WellFormed(lines, n + 1, Tail(stack))
          ELSE IF IsOpenerLine(t)
          THEN WellFormed(lines, n + 1, <<FirstWord(t)>> \o stack)
          ELSE WellFormed(lines, n + 1, stack)

\* every closer line from n on has the indent of the line that opened its
\* block; stack holds the indents of the opener lines of the blocks open at n
RECURSIVE ClosersAligned(_, _, _)
ClosersAligned(lines, n, stack) ==
  IF n > Len(lines) THEN TRUE
  ELSE LET t == Trim(lines[n])
       IN IF IsCloserLine(t)
          THEN /\ stack # <<>>
               /\ IndentOf(lines[n]) = Head(stack)
               /\ ClosersAligned(lines, n + 1, Tail(stack))
          ELSE IF IsOpenerLine(t)
          THEN ClosersAligned(lines, n + 1, <<IndentOf(lines[n])>> \o stack)
          ELSE ClosersAligned(lines, n + 1, stack)

HasBlock(lines) == \E n \in DOMAIN lines : IsOpenerLine(Trim(lines[n]))

\* C2: balanced block indentation. In the text returned for a well-formed
\* input, the line that closes a block has the indent of the line that
\* opened it.
BalancedIndentation ==
  (Returned /\ HasBlock(InLines) /\ WellFormed(InLines, 1, <<>>))
    => ClosersAligned(OutLines, 1, <<>>)

\* C6: keyword normalisation leaves literals alone. With upperCase on, a
\* string or comment of the input that the returned text holds up to letter
\* case and blanks is held by it in its own letter case.
LiteralCaseKept ==
  (Returned /\ upperCase) =>
    \A n \in Literals :
      Occurs(ToUpper(Squeeze(tok.tokens[n].value)), ToUpper(Squeeze(out)))
        => Occurs(Squeeze(tok.tokens[n].value), Squeeze(out))

\* C7: the returned text ends with exactly one newline.
EndsWithOneNewline ==
  Returned =>
    /\ Len(out) >= 1
    /\ out[Len(out)] = NL
    /\ Len(out) >= 2 => out[Len(out) - 1] # NL

\* C8: no error is raised. No step of formatPlsql or of tokenize throws: the
\* scan position stays within the text, and every line that the indentation
\* loop reads has its masked line.
NeverThrows ==
  /\ pc # "thrown"
  /\ pc = "tokenize" => tok.i <= Len(code)
  /\ pc = "indent" => (p <= Len(origLines) /\ Len(strippedLines) = Len(origLines))

\* C8 witness: formatPlsql has returned for an input that leaves a comment or
\* string open and holds a closing parenthesis that nothing opened
NeverThrowsWitness ==
  /\ Returned
  /\ Len(tok.tokens) >= 2
  /\ tok.tokens[Len(tok.tokens)].type \in {"block_comment", "string"}
  /\ Len(tok.tokens[Len(tok.tokens)].value) = 2
  /\ \E k \in 1..Len(input) : input[k] = ")"
  /\ ~\E k \in 1..Len(input) : input[k] = "("

\* the semicolons of s that do not end their line
OpenSemicolons(s) ==
  Cardinality({k \in 1..Len(s) : s[k] = ";" /\ k < Len(s) /\ s[k + 1] # NL})

\* one step of a scan moves it forward: an iteration of tokenize's loop ends
\* at a later position, within the text, and a pass of the semicolon split
\* that changes the text leaves fewer semicolons inside a line
ScansAdvance ==
  /\ (pc = "tokenize" /\ pc' = "tokenize") => (tok'.i > tok.i /\ tok'.i <= Len(code))
  /\ (pc = "semicolon" /\ pc' = "semicolon") => OpenSemicolons(code') < OpenSemicolons(code)

\* the stages of formatPlsql, counted down to the return
StagesLeft ==
  CASE pc = "start" -> 11
    [] pc = "tokenize" -> 10
    [] pc = "protect" -> 9
    [] pc = "rejoin" -> 8
    [] pc = "semicolon" -> 7
    [] pc = "keywords" -> 6
    [] pc = "restore" -> 5
    [] pc = "indent" -> 4
    [] pc = "sqlAlign" -> 3
    [] pc = "parenAlign" -> 2
    [] pc = "closers" -> 1
    [] OTHER -> 0

\* what the loop of the current stage has left to do
LoopLeft ==
  CASE pc = "tokenize" -> Len(code) - tok.i
    [] pc = "semicolon" -> OpenSemicolons(code)
    [] pc = "indent" -> Len(origLines) - p
    [] pc \in {"sqlAlign", "parenAlign", "closers"} -> Len(result) - p
    [] OTHER -> 0

\* C9: formatPlsql terminates. Every iteration of the tokenizer's scan ends at
\* a later position, every pass of the semicolon split that repeats leaves
\* fewer semicolons inside a line, and every step of formatPlsql either ends
\* a stage or shortens what its loop has left, which is never negative.
FormatTerminates ==
  [][/\ ScansAdvance
     /\ LoopLeft' >= 0
     /\ \/ StagesLeft' < StagesLeft
        \/ StagesLeft' = StagesLeft /\ LoopLeft' < LoopLeft]_vars

\* C9 witness: the semicolon split is at its third pass on a one-line input
\* that ends inside a block comment
FormatTerminatesWitness ==
  /\ call = "formatPlsql"
  /\ pc = "semicolon"
  /\ ~\E k \in 1..Len(input) : input[k] = NL
  /\ Len(SplitLines(code)) >= 3
  /\ tok.tokens # <<>>
  /\ tok.tokens[Len(tok.tokens)].type = "block_comment"
  /\ ~EndsWith(tok.tokens[Len(tok.tokens)].value, <<"*", "/">>)

EndsWithParen(t) == t # <<>> /\ t[Len(t)] = "("

\* lines n to n+4 are a call whose argument is a call: two opening lines that
\* end with '(', an argument line, ')' alone and ');' alone
IsNestedCall(lines, n) ==
  /\ n + 4 <= Len(lines)
  /\ EndsWithParen(Trim(lines[n]))
  /\ EndsWithParen(Trim(lines[n + 1]))
  /\ ~\E k \in 1..Len(lines[n + 2]) : lines[n + 2][k] \in {"(", ")"}
  /\ Trim(lines[n + 3]) = <<")">>
  /\ Trim(lines[n + 4]) = <<")", ";">>

\* C10: layout of a nested multi-line call. The returned text has one line
\* per input line; the outer call stands at some level L, the inner call at
\* L+1, the inner argument at L+2, ')' alone at L+1 and ');' alone at L.
NestedCallLayout ==
  Returned =>
    \A n \in DOMAIN InLines :
      IsNestedCall(InLines, n) =>
        /\ Len(OutLines) = Len(InLines)
        /\ \E L \in 0..Len(InLines) :
             /\ IndentOf(OutLines[n]) = L * tabSize
             /\ IndentOf(OutLines[n + 1]) = (L + 1) * tabSize
             /\ IndentOf(OutLines[n + 2]) = (L + 2) * tabSize
             /\ OutLines[n + 3] = Repeat(SP, (L + 1) * tabSize) \o <<")">>
             /\ OutLines[n + 4] = Repeat(SP, L * tabSize) \o <<")", ";">>

-----------------------------------------------------------------------------
(* Statements and queries given to formatPlsql *)

\* a sequence of lines alone and inside a BEGIN block
Wrapped(lines) ==
  {lines, <<<<"B","E","G","I","N">>>> \o lines \o <<<<"E","N","D",";">>>>}

\* an assignment whose value is a CASE expression, on one line, with each
\* WHEN on a line of its own, or with each branch value on a line of its
\* own, followed by the statement y := 1;
CaseExprForms ==
  { <<<<"x"," ",":","="," ","C","A","S","E"," ","W","H","E","N"," ","a"," ","T","H","E","N"," ","1"," ","W","H","E","N"," ","b"," ","T","H","E","N"," ","2"," ","E","N","D",";">>>>,
    <<<<"x"," ",":","="," ","C","A","S","E"," ","W","H","E","N"," ","a"," ","T","H","E","N"," ","1"," ","E","L","S","E"," ","2"," ","E","N","D",";">>>>,
    <<<<"x"," ",":","="," ","C","A","S","E">>, <<"W","H","E","N"," ","a"," ","T","H","E","N"," ","1">>, <<"W","H","E","N"," ","b"," ","T","H","E","N"," ","2">>, <<"E","N","D",";">>>>,
    <<<<"x"," ",":","="," ","C","A","S","E">>, <<"W","H","E","N"," ","a"," ","T","H","E","N"," ","1">>, <<"E","L","S","E"," ","2">>, <<"E","N","D",";">>>>,
    <<<<"x"," ",":","="," ","C","A","S","E">>, <<"W","H","E","N"," ","a"," ","T","H","E","N">>, <<"1">>, <<"W","H","E","N"," ","b"," ","T","H","E","N">>, <<"2">>, <<"E","N","D",";">>>> }

CaseExprInputs ==
  UNION {{JoinLines(w) : w \in Wrapped(f \o <<<<"y"," ",":","="," ","1",";">>>>)} : f \in CaseExprForms}

\* one query or update statement on one line, without parentheses, with its
\* clause keywords inside the line
SqlStatements ==
  { <<"S","E","L","E","C","T"," ","1"," ","F","R","O","M"," ","d","u","a","l",";">>,
    <<"S","E","L","E","C","T"," ","a"," ","I","N","T","O"," ","b"," ","F","R","O","M"," ","t"," ","W","H","E","R","E"," ","c"," ","="," ","1",";">>,
    <<"S","E","L","E","C","T"," ","a"," ","F","R","O","M"," ","t"," ","G","R","O","U","P"," ","B","Y"," ","a"," ","H","A","V","I","N","G"," ","b",";">>,
    <<"S","E","L","E","C","T"," ","a"," ","F","R","O","M"," ","t"," ","O","R","D","E","R"," ","B","Y"," ","a",";">>,
    <<"U","P","D","A","T","E"," ","t"," ","S","E","T"," ","a"," ","="," ","1"," ","W","H","E","R","E"," ","b"," ","="," ","2",";">>,
    <<"s","e","l","e","c","t"," ","a"," ","f","r","o","m"," ","t"," ","w","h","e","r","e"," ","b"," ","="," ","1"," ","a","n","d"," ","c"," ","="," ","2",";">> }

SqlInputs == UNION {{JoinLines(w) : w \in Wrapped(<<s>>)} : s \in SqlStatements}

\* a conditional written on one line: IF c THEN s; END IF;
InlineIfs ==
  { <<"I","F"," ">> \o c \o <<" ","T","H","E","N"," ">> \o s \o <<" ","E","N","D"," ","I","F",";">> :
      c \in {<<"c">>, <<"x"," ",">"," ","0">>, <<"a"," ","="," ","1"," ","A","N","D"," ","b"," ","="," ","2">>},
      s \in {<<"s",";">>, <<"y"," ",":","="," ","1",";">>} }
    \cup {<<"i","f"," ","x"," ",">"," ","0"," ","t","h","e","n"," ","y"," ",":","="," ","1",";"," ","e","n","d"," ","i","f",";">>}

InlineIfInputs == UNION {{JoinLines(w) : w \in Wrapped(<<s>>)} : s \in InlineIfs}

\* an IF statement, one keyword or statement per line, with and without
\* ELSIF and ELSE branches
IfForms ==
  { <<<<"I","F"," ","a"," ","T","H","E","N">>, <<"x",";">>, <<"E","L","S","I","F"," ","b"," ","T","H","E","N">>, <<"y",";">>, <<"E","L","S","E">>, <<"z",";">>, <<"E","N","D"," ","I","F",";">>>>,
    <<<<"I","F"," ","a"," ","T","H","E","N">>, <<"x",";">>, <<"E","L","S","E">>, <<"z",";">>, <<"E","N","D"," ","I","F",";">>>>,
    <<<<"I","F"," ","a"," ","T","H","E","N">>, <<"x",";">>, <<"E","N","D"," ","I","F",";">>>> }

\* the places where a statement can stand: alone, after another statement,
\* in a BEGIN block, in a LOOP, in a branch of an IF, in a branch of a CASE
\* statement, after a statement of such a branch, in an exception handler
Contexts(stmt) ==
  { stmt,
    <<<<"x",";">>>> \o stmt,
    <<<<"B","E","G","I","N">>>> \o stmt \o <<<<"E","N","D",";">>>>,
    <<<<"L","O","O","P">>>> \o stmt \o <<<<"E","N","D"," ","L","O","O","P",";">>>>,
    <<<<"I","F"," ","c"," ","T","H","E","N">>>> \o stmt \o <<<<"E","N","D"," ","I","F",";">>>>,
    <<<<"C","A","S","E"," ","x">>, <<"W","H","E","N"," ","1"," ","T","H","E","N">>>> \o stmt \o <<<<"E","N","D"," ","C","A","S","E",";">>>>,
    <<<<"C","A","S","E"," ","x">>, <<"W","H","E","N"," ","1"," ","T","H","E","N">>, <<"y",";">>>> \o stmt \o <<<<"E","N","D"," ","C","A","S","E",";">>>>,
    <<<<"B","E","G","I","N">>, <<"x",";">>, <<"E","X","C","E","P","T","I","O","N">>, <<"W","H","E","N"," ","e"," ","T","H","E","N">>>> \o stmt \o <<<<"E","N","D",";">>>> }

IfInputs == UNION {{JoinLines(w) : w \in Contexts(f)} : f \in IfForms}

\* what a branch of a CASE statement can hold: a statement, several
\* statements, an IF statement, a LOOP, a CASE statement, an assignment of a
\* CASE expression
BranchBodies ==
  { <<<<"v"," ",":","="," ","1",";">>>>,
    <<<<"v"," ",":","="," ","1",";">>, <<"w"," ",":","="," ","2",";">>>>,
    <<<<"I","F"," ","a"," ","T","H","E","N">>, <<"x",";">>, <<"E","N","D"," ","I","F",";">>>>,
    <<<<"I","F"," ","a"," ","T","H","E","N">>, <<"x",";">>, <<"E","L","S","E">>, <<"z",";">>, <<"E","N","D"," ","I","F",";">>>>,
    <<<<"L","O","O","P">>, <<"x",";">>, <<"E","N","D"," ","L","O","O","P",";">>>>,
    <<<<"C","A","S","E"," ","y">>, <<"W","H","E","N"," ","2"," ","T","H","E","N">>, <<"x",";">>, <<"E","N","D"," ","C","A","S","E",";">>>>,
    <<<<"y"," ",":","="," ","C","A","S","E">>, <<"W","H","E","N"," ","a"," ","T","H","E","N">>, <<"1">>, <<"E","L","S","E">>, <<"2">>, <<"E","N","D",";">>>> }

\* a CASE statement with two WHEN branches, or a WHEN and an ELSE branch
CaseForms ==
  { <<<<"C","A","S","E">>, <<"W","H","E","N"," ","a"," ","="," ","1"," ","T","H","E","N">>>> \o b \o last \o <<<<"v"," ",":","="," ","0",";">>, <<"E","N","D"," ","C","A","S","E",";">>>> :
      b \in BranchBodies, last \in {<<<<"W","H","E","N"," ","b"," ","="," ","2"," ","T","H","E","N">>>>, <<<<"E","L","S","E">>>>} }

CaseContexts(stmt) ==
  { stmt,
    <<<<"B","E","G","I","N">>>> \o stmt \o <<<<"E","N","D",";">>>>,
    <<<<"B","E","G","I","N">>, <<"I","F"," ","x"," ",">"," ","0"," ","T","H","E","N">>>> \o stmt \o <<<<"E","N","D"," ","I","F",";">>, <<"E","N","D",";">>>> }

CaseInputs == UNION {{JoinLines(w) : w \in CaseContexts(f)} : f \in CaseForms}

\* a block with an EXCEPTION section of two handlers
ExceptionForms ==
  { <<<<"B","E","G","I","N">>, <<"x",";">>, <<"E","X","C","E","P","T","I","O","N">>, <<"W","H","E","N"," ","e"," ","T","H","E","N">>>> \o b
        \o <<<<"W","H","E","N"," ","O","T","H","E","R","S"," ","T","H","E","N">>, <<"v"," ",":","="," ","0",";">>, <<"E","N","D",";">>>> :
      b \in BranchBodies }

ExceptionInputs == UNION {{JoinLines(w) : w \in Wrapped(f)} : f \in ExceptionForms}

\* two lines with a blank line between them, the blank line empty or made of
\* spaces, and a block with a blank line between its statements
BlankInputs ==
  { JoinLines(<<first, blank, second>>) :
      first \in {<<"a",";">>, <<"B","E","G","I","N">>, <<"I","F"," ","a"," ","T","H","E","N">>, <<"L","O","O","P">>, <<"S","E","L","E","C","T"," ","a">>},
      blank \in {<<>>, <<" "," ">>},
      second \in {<<"b",";">>, <<"E","N","D",";">>, <<"F","R","O","M"," ","t",";">>} }
    \cup {JoinLines(<<<<"B","E","G","I","N">>, <<"x"," ",":","="," ","1",";">>, <<>>, <<"y"," ",":","="," ","2",";">>, <<"E","N","D",";">>>>)}

\* lines with semicolons inside them: before a statement, inside and after
\* parentheses, inside a string, before a comment, a string or a digit
SemicolonInputs ==
  { <<"a",";"," ","b",";">>,
    <<"a",";","b",";"," ","c",";">>,
    <<"f","(","a",";"," ","b",")",";">>,
    <<"f","(","a",")",";"," ","b",";">>,
    <<"a",")"," ",";"," ","b",";">>,
    <<"x"," ",":","="," ",QUOTE,"a",";"," ","b",QUOTE,";"," ","y",";">>,
    <<"a",";"," ","-","-"," ","c">>,
    <<"a",";"," ","/","*"," ","c"," ","*","/">>,
    <<"a",";"," ",QUOTE,"b",QUOTE>>,
    <<"a",";"," ","1",";">>,
    <<"a",";"," "," "," ","b",";",NL,"c",";"," ","d",";">> }

\* a CASE statement or the assignment of a CASE expression, closed, and after
\* it an IF statement with an ELSE branch
ClosedCases ==
  { <<<<"C","A","S","E"," ","x">>, <<"W","H","E","N"," ","1"," ","T","H","E","N">>, <<"a",";">>, <<"E","N","D"," ","C","A","S","E",";">>>>,
    <<<<"C","A","S","E"," ","x">>, <<"W","H","E","N"," ","1"," ","T","H","E","N">>, <<"a",";">>, <<"E","L","S","E">>, <<"b",";">>, <<"E","N","D"," ","C","A","S","E",";">>>>,
    <<<<"x"," ",":","="," ","C","A","S","E">>, <<"W","H","E","N"," ","a"," ","T","H","E","N"," ","1">>, <<"E","L","S","E"," ","2">>, <<"E","N","D",";">>>>,
    <<<<"x"," ",":","="," ","C","A","S","E">>, <<"W","H","E","N"," ","a"," ","T","H","E","N">>, <<"1">>, <<"W","H","E","N"," ","b"," ","T","H","E","N">>, <<"2">>, <<"E","N","D",";">>>>,
    <<<<"x"," ",":","="," ","C","A","S","E"," ","W","H","E","N"," ","a"," ","T","H","E","N"," ","1"," ","E","L","S","E"," ","2"," ","E","N","D",";">>>> }

CaseThenIfInputs ==
  UNION {{JoinLines(w) :
            w \in Wrapped(c \o <<<<"I","F"," ","b"," ","T","H","E","N">>, <<"c",";">>, <<"E","L","S","E">>, <<"d",";">>, <<"E","N","D"," ","I","F",";">>>>)} :
         c \in ClosedCases}

\* a multi-line call closed in each way: ')' and ');' alone on their lines,
\* both closers on one line, the closer behind the last argument; after it
\* the statement c;
ClosedCalls ==
  { <<<<"f","(">>, <<"a">>, <<")",";">>>>,
    <<<<"f","(">>, <<"g","(">>, <<"a">>, <<")">>, <<")",";">>>>,
    <<<<"f","(">>, <<"g","(">>, <<"a">>, <<")",")",";">>>>,
    <<<<"f","(">>, <<"a",",">>, <<"b",")",";">>>>,
    <<<<"x"," ",":","="," ","f","(">>, <<"g","(">>, <<"a",")",")",";">>>> }

ClosedCallInputs ==
  UNION {{JoinLines(w) : w \in Wrapped(c \o <<<<"c",";">>>>)} : c \in ClosedCalls}

\* statements that hold a query in parentheses: the query of a cursor loop on
\* one line in capitals, on several lines in small letters, with a blank
\* after '(' and a capital S; a query as argument of a call; a query that
\* ends on the line where it starts
SubQueryForms ==
  { <<<<"F","O","R"," ","r"," ","I","N"," ","(","S","E","L","E","C","T"," ","a"," ","F","R","O","M"," ","t"," ","W","H","E","R","E"," ","b"," ","="," ","1"," ","A","N","D"," ","c"," ","="," ","2"," ","O","R","D","E","R"," ","B","Y"," ","a",")"," ","L","O","O","P">>, <<"x",";">>, <<"E","N","D"," ","L","O","O","P",";">>>>,
    <<<<"f","o","r"," ","r"," ","i","n"," ","(","s","e","l","e","c","t"," ","a">>, <<"f","r","o","m"," ","t">>, <<"w","h","e","r","e"," ","b"," ","="," ","1">>, <<"o","r"," ","c"," ","="," ","2",")"," ","l","o","o","p">>, <<"x",";">>, <<"e","n","d"," ","l","o","o","p",";">>>>,
    <<<<"F","O","R"," ","r"," ","I","N"," ","("," ","S","e","l","e","c","t"," ","a"," ","I","N","T","O"," ","b"," ","F","R","O","M"," ","t"," ","W","H","E","R","E"," ","c"," ","="," ","1"," ","A","N","D"," ","d"," ","="," ","2",")"," ","L","O","O","P">>, <<"x",";">>, <<"E","N","D"," ","L","O","O","P",";">>>>,
    <<<<"v"," ",":","="," ","f","(","(","S","E","L","E","C","T"," ","a"," ","F","R","O","M"," ","t"," ","G","R","O","U","P"," ","B","Y"," ","a"," ","H","A","V","I","N","G"," ","b",")",")",";">>, <<"c",";">>>>,
    <<<<"x"," ",":","="," ","(","S","E","L","E","C","T"," ","1",")",";">>, <<"I","F"," ","a"," ","="," ","1"," ","A","N","D"," ","b"," ","="," ","2"," ","T","H","E","N">>, <<"y",";">>, <<"E","N","D"," ","I","F",";">>>> }

SubQueryInputs == UNION {{JoinLines(w) : w \in Wrapped(f)} : f \in SubQueryForms}

\* a multi-line call whose last argument line ends with a line comment, with
\* a block comment or with neither, closed by ')' and ');' on lines of their
\* own
CommentedCalls ==
  { <<<<"f","(">>, <<"a"," ","-","-"," ","c">>, <<")",";">>>>,
    <<<<"f","(">>, <<"a",","," ","-","-"," ","c">>, <<"b">>, <<")",";">>>>,
    <<<<"f","(">>, <<"a"," ","/","*"," ","c"," ","*","/">>, <<")",";">>>>,
    <<<<"f","(">>, <<"g","(">>, <<"a"," ","-","-"," ","c">>, <<")">>, <<")",";">>>>,
    <<<<"x"," ",":","="," ","f","(","a"," ","-","-"," ","c">>, <<")",";">>>> }

CommentedCallInputs == UNION {{JoinLines(w) : w \in Wrapped(c)} : c \in CommentedCalls}

\* texts with lines of closers only: after a blank first line, on the first
\* line, after blank lines in the middle of the text, one after the other
CloserLineInputs ==
  { <<NL,")">>,
    <<NL,")",NL,"a",NL,NL,")",";">>,
    <<NL,NL,")",";",NL,"a">>,
    <<")",NL,")",";",NL,"a">>,
    <<" "," ",NL,";",NL,")">>,
    <<"f","(","a",NL,NL,")",NL,NL,")",";",NL,"b",";",NL,")"," ",";">> }

\* texts with parentheses left open from one line to the next: nested calls,
\* parentheses inside strings and quoted names, a closing parenthesis too
\* many, a string that runs over two lines and holds a parenthesis
ParenTexts ==
  { <<"x"," ",":","="," ","f","(","a",",",NL,"b",",",NL,"g","(","c",",",NL,"d",")",")",";",NL,"e",";">>,
    <<"y"," ","I","N"," ","(",QUOTE,"X","(",QUOTE,",",NL,QUOTE,"Y",")",QUOTE,",",NL,QUOTE,"Z",QUOTE,")",";">>,
    <<"f","(","a",")",")",NL,"(","b",NL,"c",";">>,
    <<"f","(","\"","a","(","\"",",",NL,QUOTE,"i","t",QUOTE,QUOTE,"s"," ","(",QUOTE,",",NL,"b",")",";">>,
    <<"x"," ",":","="," ",QUOTE,"a",NL,"(","b",QUOTE,";",NL,"c",";">> }

\* texts that ask for more dedent than there is level: END lines with
\* nothing open, '/' lines, an END CASE; whose CASE was opened at a level
\* above the current one, an END CASE; with no CASE open, dedenting keywords
\* at level 0, closers with no call open
LevelTexts ==
  { <<"E","N","D",";",NL,"E","N","D"," ","I","F",";",NL,"E","N","D"," ","L","O","O","P",";",NL,"E","N","D"," ","f","o","o",";",NL,"x",";">>,
    <<"B","E","G","I","N",NL,"I","F"," ","a"," ","T","H","E","N",NL,"x",";",NL,"/",NL,"/",NL,"y",";">>,
    <<"B","E","G","I","N",NL,"C","A","S","E"," ","x",NL,"W","H","E","N"," ","1"," ","T","H","E","N",NL,"y",";",NL,"E","N","D",";",NL,"E","N","D",";",NL,"E","N","D",";",NL,"E","N","D"," ","C","A","S","E",";",NL,"E","N","D"," ","C","A","S","E",";",NL,"z",";">>,
    <<"E","L","S","E",NL,"E","L","S","I","F"," ","b"," ","T","H","E","N",NL,"E","X","C","E","P","T","I","O","N",NL,"B","E","G","I","N",NL,"E","N","D",";",NL,"E","N","D",";">>,
    <<")",NL,")",";",NL,"f","(",NL,"a",NL,")",NL,")",NL,"x",";">> }

StmtInputs ==
  CaseExprInputs \cup SqlInputs \cup InlineIfInputs \cup IfInputs \cup CaseInputs
    \cup ExceptionInputs \cup BlankInputs \cup SemicolonInputs

\* a call of formatPlsql(s, options) on a statement or query
InitStmt ==
  /\ call = "formatPlsql"
  /\ input \in StmtInputs
  /\ upperCase \in BOOLEAN
  /\ tabSize = 2
  /\ pc = "start"
  /\ code = input
  /\ InitLocals
  /\ returned = <<>>

SpecStmt == InitStmt /\ [][NextFmt]_vars

-----------------------------------------------------------------------------
(* Claims about the layout of statements and queries *)

\* the first line from n on that satisfies Test, 0 when there is none
FirstLine(lines, n, Test(_)) ==
  LET hits == {m \in n..Len(lines) : Test(lines[m])}
  IN IF hits = {} THEN 0 ELSE Least(hits)

\* the line assigns a CASE expression; the line ends a CASE expression
AssignsCase(line) == Occurs(<<":","="," ","C","A","S","E">>, ToUpper(line))
EndsCaseExpr(line) == EndsWith(ToUpper(Trim(line)), <<"E","N","D",";">>)

\* line n of the input assigns a CASE expression that ends on line e, and the
\* statement on line e + 1 follows it
CaseExprAt(lines, n, e) ==
  /\ AssignsCase(lines[n])
  /\ e = FirstLine(lines, n, EndsCaseExpr)
  /\ e > 0
  /\ e < Len(lines)
  /\ Trim(lines[e + 1]) = <<"y"," ",":","="," ","1",";">>

\* C11: the statement after a CASE expression. When a CASE expression is
\* assigned, on one line or with each WHEN on its own line, the statement that
\* follows is printed at the indent of the line that holds the assignment.
CaseExprSibling ==
  Returned =>
    \A n, e \in DOMAIN InLines :
      CaseExprAt(InLines, n, e) =>
        \A a, s \in DOMAIN OutLines :
          (AssignsCase(OutLines[a]) /\ Trim(OutLines[s]) = <<"y"," ",":","="," ","1",";">>)
            => IndentOf(OutLines[s]) = IndentOf(OutLines[a])

SqlStarts == {KW_SELECT, KW_INSERT, KW_UPDATE, KW_DELETE, KW_MERGE}

\* the line is a top-level statement: it starts with a query keyword, ends
\* with its semicolon and holds no parenthesis
IsTopLevelSql(line) ==
  /\ \E kw \in SqlStarts : WordEndCI(TrimStart(line), kw, 0)
  /\ EndsWith(Trim(line), <<";">>)
  /\ ~\E k \in 1..Len(line) : line[k] \in {"(", ")"}

\* the clause keywords that stand inside the line, between blanks
MidLineClauses(line) ==
  {n \in DOMAIN sqlClauseKws :
     \E k \in 1..(Len(line) - Len(sqlClauseKws[n]) - 1) :
       /\ line[k] = SP
       /\ MatchCI(line, sqlClauseKws[n], k)
       /\ At(line, k + Len(sqlClauseKws[n])) = SP}

\* the line starts with kw in capitals, then blanks up to the fixed width (one
\* blank at least), then the rest of the clause
IsPaddedClause(line, kw) ==
  LET t == TrimStart(line)
      w == Max(PAD_WIDTH, Len(kw) + 1)
  IN /\ Len(t) > w
     /\ Substring(t, 0, Len(kw)) = kw
     /\ \A k \in (Len(kw) + 1)..w : t[k] = SP
     /\ t[w + 1] # SP

\* C12: clause keywords of a top-level statement. Every clause keyword inside
\* the line of a top-level statement starts a line of its own in the returned
\* text, at the indent of the statement's first line, and is padded with
\* blanks to the fixed width before the rest of its clause; 'SELECT 1 FROM
\* dual;' gives the lines 'SELECT 1' and 'FROM   dual;'.
ClauseKeywordsPadded ==
  Returned =>
    /\ \A n \in DOMAIN InLines :
         IsTopLevelSql(InLines[n]) =>
           \A c \in MidLineClauses(InLines[n]) :
             \E s, m \in DOMAIN OutLines :
               /\ s < m
               /\ \E kw \in SqlStarts : WordEndCI(TrimStart(OutLines[s]), kw, 0)
               /\ IndentOf(OutLines[m]) = IndentOf(OutLines[s])
               /\ IsPaddedClause(OutLines[m], sqlClauseKws[c])
    /\ input = <<"S","E","L","E","C","T"," ","1"," ","F","R","O","M"," ","d","u","a","l",";">> => OutLines = <<<<"S","E","L","E","C","T"," ","1">>, <<"F","R","O","M"," "," "," ","d","u","a","l",";">>>>

\* the parts of a one-line conditional: the text up to its THEN, the body
\* statement after it, and the closing END IF;
ThenEnd(line) == IndexOf(ToUpper(line), <<" ","T","H","E","N"," ">>, 0) + 5
BodyEnd(line) == IndexOf(line, <<";">>, 0) + 1

IsInlineIf(line) ==
  /\ WordEndCI(line, KW_IF, 0)
  /\ ThenEnd(line) > 5
  /\ BodyEnd(line) > ThenEnd(line)
  /\ ToUpper(Substring(line, BodyEnd(line), Len(line))) = <<" ","E","N","D"," ","I","F",";">>

\* C13: a conditional on one line. 'IF c THEN s; END IF;' is printed on
\* exactly three lines, 'IF c THEN', the statement s; one level deeper, and
\* 'END IF;' at the indent of the IF line; with keyword normalisation on, IF,
\* THEN and END IF are in capitals.
InlineIfSplit ==
  Returned =>
    \A n \in DOMAIN InLines :
      IsInlineIf(InLines[n]) =>
        LET line == InLines[n]
            head == Substring(line, 0, ThenEnd(line))
            body == Substring(line, ThenEnd(line) + 1, BodyEnd(line))
        IN /\ Len(OutLines) = Len(InLines) + 2
           /\ ToUpper(Trim(OutLines[n])) = ToUpper(head)
           /\ Trim(OutLines[n + 1]) = body
           /\ ToUpper(Trim(OutLines[n + 2])) = <<"E","N","D"," ","I","F",";">>
           /\ IndentOf(OutLines[n + 1]) = IndentOf(OutLines[n]) + tabSize
           /\ IndentOf(OutLines[n + 2]) = IndentOf(OutLines[n])
           /\ upperCase =>
                /\ Substring(Trim(OutLines[n]), 0, 2) = KW_IF
                /\ EndsWith(OutLines[n], KW_THEN)
                /\ Trim(OutLines[n + 2]) = <<"E","N","D"," ","I","F",";">>

\* the kind of a line of a program written one keyword or statement per line
IsIfLine(t) == StartsWithWord(t, KW_IF) /\ reThen(t)
IsEndIfLine(t) == ToUpper(Squeeze(t)) = <<"E","N","D","I","F",";">>
IsCaseLine(t) == (reCaseStart(t) \/ AssignsCase(t)) /\ ~HasWord(t, KW_END)
IsEndCaseLine(t) == ToUpper(Squeeze(t)) = <<"E","N","D","C","A","S","E",";">>

\* line n + 1, the first line of a branch body, is one level deeper than line n
BodyDeeper(outl, n, tab) ==
  (n < Len(outl) /\ Trim(outl[n + 1]) # <<>>)
    => IndentOf(outl[n + 1]) = IndentOf(outl[n]) + tab

\* from line n on, every ELSIF, ELSE and END IF line of an IF statement has
\* the indent of its IF line and every branch body is one level deeper; stack
\* holds the IF and CASE lines that are open at line n, innermost first
RECURSIVE IfAligned(_, _, _, _, _)
IfAligned(inl, outl, n, stack, tab) ==
  IF n > Len(inl) THEN TRUE
  ELSE LET t == Trim(inl[n])
           inIf == stack # <<>> /\ Head(stack).kind = "IF"
       IN IF IsIfLine(t)
          THEN /\ BodyDeeper(outl, n, tab)
               /\ IfAligned(inl, outl, n + 1, <<[kind |-> "IF", line |-> n]>> \o stack, tab)
          ELSE IF IsCaseLine(t)
          THEN IfAligned(inl, outl, n + 1, <<[kind |-> "CASE", line |-> n]>> \o stack, tab)
          ELSE IF inIf /\ (reElsif(t) \/ reElse(t))
          THEN /\ IndentOf(outl[n]) = IndentOf(outl[Head(stack).line])
               /\ BodyDeeper(outl, n, tab)
               /\ IfAligned(inl, outl, n + 1, stack, tab)
          ELSE IF inIf /\ IsEndIfLine(t)
          THEN /\ IndentOf(outl[n]) = IndentOf(outl[Head(stack).line])
               /\ IfAligned(inl, outl, n + 1, Tail(stack), tab)
          ELSE IF stack # <<>> /\ IsEndCaseLine(t)
          THEN IfAligned(inl, outl, n + 1, Tail(stack), tab)
          ELSE IfAligned(inl, outl, n + 1, stack, tab)

HasIf(lines) == \E n \in DOMAIN lines : IsIfLine(Trim(lines[n]))

\* C14: the lines of an IF statement. Where the returned text has the lines
\* of the input, the IF, ELSIF, ELSE and END IF lines of one IF statement have
\* the same indent and each branch body is one level deeper, whatever comes
\* before the IF statement.
IfBranchesAligned ==
  (Returned /\ HasIf(InLines) /\ Len(OutLines) = Len(InLines))
    => IfAligned(InLines, OutLines, 1, <<>>, tabSize)

\* the line opens a CASE statement
IsCaseStatementLine(t) == reCaseStart(t) /\ ~HasWord(t, KW_END)

\* from line n on, every END CASE; line has the indent of the CASE line it
\* closes; stack holds the CASE statement lines open at line n
RECURSIVE EndCaseAligned(_, _, _, _)
EndCaseAligned(inl, outl, n, stack) ==
  IF n > Len(inl) THEN TRUE
  ELSE LET t == Trim(inl[n])
       IN IF IsCaseStatementLine(t)
          THEN EndCaseAligned(inl, outl, n + 1, <<n>> \o stack)
          ELSE IF stack # <<>> /\ IsEndCaseLine(t)
          THEN /\ IndentOf(outl[n]) = IndentOf(outl[Head(stack)])
               /\ EndCaseAligned(inl, outl, n + 1, Tail(stack))
          ELSE EndCaseAligned(inl, outl, n + 1, stack)

HasCaseStatement(lines) == \E n \in DOMAIN lines : IsCaseStatementLine(Trim(lines[n]))

\* C15: END CASE; stands under its CASE. Where the returned text has the lines
\* of the input, every END CASE; line has the indent of the CASE line that
\* opened the statement, with or without an ELSE branch and whatever the
\* branches hold.
EndCaseUnderCase ==
  (Returned /\ HasCaseStatement(InLines) /\ Len(OutLines) = Len(InLines))
    => EndCaseAligned(InLines, OutLines, 1, <<>>)

IsEndLoopLine(t) == ToUpper(Squeeze(t)) = <<"E","N","D","L","O","O","P",";">>
IsEndLine(t) == ToUpper(Squeeze(t)) = <<"E","N","D",";">>
IsWhenThenLine(t) == reWhenException(t) /\ reThen(t)

\* the kind of construct that the line opens, "" when it opens none
OpenedKind(t) ==
  IF IsIfLine(t) THEN "IF"
  ELSE IF reLoop(t) THEN "LOOP"
  ELSE IF reBegin(t) THEN "BEGIN"
  ELSE IF IsCaseStatementLine(t) THEN "CASE"
  ELSE IF AssignsCase(t) /\ ~HasWord(t, KW_END) THEN "EXPR"
  ELSE ""

\* the line closes a construct of the kind
ClosesKind(t, kind) ==
  CASE kind = "IF" -> IsEndIfLine(t)
    [] kind = "LOOP" -> IsEndLoopLine(t)
    [] kind = "CASE" -> IsEndCaseLine(t)
    [] OTHER -> IsEndLine(t)

\* the line stands directly in the body of the branch opened by the last
\* WHEN line of the innermost construct: it is one level deeper than it
InBranchBody(outl, n, stack, tab) ==
  (stack # <<>> /\ Head(stack).when > 0)
    => IndentOf(outl[n]) = IndentOf(outl[Head(stack).when]) + tab

\* from line n on: every WHEN ... THEN line is one level deeper than the CASE
\* or EXCEPTION line of its construct, and every statement, opener and closer
\* that stands directly in a branch is one level deeper than the WHEN line of
\* the branch. stack holds the constructs open at line n, innermost first,
\* each with its opening line and the WHEN line of its current branch.
RECURSIVE WhenAligned(_, _, _, _, _)
WhenAligned(inl, outl, n, stack, tab) ==
  IF n > Len(inl) THEN TRUE
  ELSE LET t == Trim(inl[n])
           kind == IF stack = <<>> THEN "" ELSE Head(stack).kind
       IN IF stack # <<>> /\ ClosesKind(t, kind)
          THEN /\ InBranchBody(outl, n, Tail(stack), tab)
               /\ WhenAligned(inl, outl, n + 1, Tail(stack), tab)
          ELSE IF kind = "BEGIN" /\ reException(t)
          THEN WhenAligned(inl, outl, n + 1,
                           <<[kind |-> "EXCEPTION", line |-> n, when |-> 0]>> \o Tail(stack), tab)
          ELSE IF kind \in {"CASE", "EXPR", "EXCEPTION"} /\ IsWhenThenLine(t)
          THEN /\ IndentOf(outl[n]) = IndentOf(outl[Head(stack).line]) + tab
               /\ WhenAligned(inl, outl, n + 1,
                              <<[Head(stack) EXCEPT !.when = n]>> \o Tail(stack), tab)
          ELSE IF kind \in {"CASE", "EXPR"} /\ reElse(t)
          THEN WhenAligned(inl, outl, n + 1,
                           <<[Head(stack) EXCEPT !.when = 0]>> \o Tail(stack), tab)
          ELSE /\ InBranchBody(outl, n, stack, tab)
               /\ WhenAligned(inl, outl, n + 1,
                              IF OpenedKind(t) = "" THEN stack
                              ELSE <<[kind |-> OpenedKind(t), line |-> n, when |-> 0]>> \o stack,
                              tab)

HasWhen(lines) == \E n \in DOMAIN lines : IsWhenThenLine(Trim(lines[n]))

\* C16: the branches of a CASE and the handlers of an EXCEPTION section.
\* Where the returned text has the lines of the input, the WHEN ... THEN
\* lines of one construct are one level deeper than its CASE or EXCEPTION
\* line, and what stands in a branch is one level deeper than its WHEN line,
\* also for several statements and for a nested IF or LOOP block.
WhenBranchesAligned ==
  (Returned /\ HasWhen(InLines) /\ Len(OutLines) = Len(InLines))
    => WhenAligned(InLines, OutLines, 1, <<>>, tabSize)

\* C17: keyword normalisation off. With upperCaseKeywords false, the returned
\* text has every letter in the case it has in the input: the two texts,
\* blanks aside, are the same whenever they are the same up to letter case.
CaseKeptWhenOff ==
  (Returned /\ ~upperCase) =>
    (ToUpper(Squeeze(out)) = ToUpper(Squeeze(input)) => Squeeze(out) = Squeeze(input))

IsBlank(line) == Trim(line) = <<>>

\* the blank lines that have a line that is not blank before and after them
InteriorBlanks(lines) ==
  {n \in DOMAIN lines :
     /\ IsBlank(lines[n])
     /\ \E a \in 1..(n - 1) : ~IsBlank(lines[a])
     /\ \E b \in (n + 1)..Len(lines) : ~IsBlank(lines[b])}

\* C18: interior blank lines are kept. Every blank line that stands between
\* two lines of the input that are not blank is in the returned text, as an
\* empty line without indentation: the returned text has as many interior
\* blank lines as the input, each of them empty.
BlankLinesKept ==
  Returned =>
    /\ Cardinality(InteriorBlanks(OutLines)) = Cardinality(InteriorBlanks(InLines))
    /\ \A m \in InteriorBlanks(OutLines) : OutLines[m] = <<>>

-----------------------------------------------------------------------------
(* Successive calls of formatPlsql *)

\* formatPlsql is a synchronous function: a call runs to its return before
\* the next one starts, so the calls of several callers reach it in some
\* order, one after the other. A caller makes up to MaxCalls calls.
MaxCalls == 3

\* texts that leave the engine in the middle of a block, of a CASE branch, of
\* a call's arguments, of a sub-query, and with literals stored
CallTexts ==
  { <<"B","E","G","I","N",NL,"C","A","S","E"," ","x",NL,"W","H","E","N"," ","1"," ","T","H","E","N",NL,"f","(",NL,"a",";">>,
    <<"F","O","R"," ","c"," ","I","N"," ","(","S","E","L","E","C","T"," ","a",NL,"F","R","O","M"," ","t"," ","W","H","E","R","E"," ","b"," ","="," ",QUOTE,"x",QUOTE>>,
    <<"y"," ",":","="," ",QUOTE,"b",QUOTE,";"," ","-","-"," ","c",NL,"e","n","d",";">> }

\* the first call of formatPlsql
InitCalls ==
  /\ call = "formatPlsql"
  /\ input \in CallTexts
  /\ upperCase \in BOOLEAN
  /\ tabSize = 2
  /\ pc = "start"
  /\ code = input
  /\ InitLocals
  /\ returned = <<>>

\* as CallAgain, were tokenize's position, buffer and token list kept from one
\* call to the next
CallAgainKeepsTokens ==
  /\ call = "formatPlsql"
  /\ pc = "done"
  /\ Len(returned) < MaxCalls - 1
  /\ returned' = Append(returned, [input |-> input, upperCase |-> upperCase,
                                   tabSize |-> tabSize, out |-> out])
  /\ input' \in CallTexts
  /\ upperCase' \in BOOLEAN
  /\ code' = input'
  /\ pc' = "start"
  /\ UNCHANGED <<call, tabSize, tok, fmtLocals, out, runs>>

\* a call has returned and formatPlsql is called again. The new invocation
\* has its own parameters; tokenize starts with its own i, buf and tokens.
\* The model's other variables keep what the last call left in them: each is
\* assigned by the step that models its declaration in the function body.
CallAgain ==
  /\ call = "formatPlsql"
  /\ pc = "done"
  /\ Len(returned) < MaxCalls - 1
  /\ returned' = Append(returned, [input |-> input, upperCase |-> upperCase,
                                   tabSize |-> tabSize, out |-> out])
  /\ input' \in CallTexts
  /\ upperCase' \in BOOLEAN
  /\ code' = input'
  /\ pc' = "start"
  /\ tok' = TokStart
  /\ UNCHANGED <<call, tabSize, fmtLocals, out, runs>>

NextCalls == NextFmt \/ CallAgain

SpecCalls == InitCalls /\ [][NextCalls]_vars

\* C19: no state is kept between invocations. A call of formatPlsql returns
\* what every earlier call with the same text and options returned, whatever
\* calls were made before it or between the two.
CallsIndependent ==
  (call = "formatPlsql" /\ pc = "done") =>
    \A k \in DOMAIN returned :
      (returned[k].input = input /\ returned[k].upperCase = upperCase
         /\ returned[k].tabSize = tabSize)
        => returned[k].out = out

\* C19 witness: the third call has returned; it has the text and options of
\* the first one, the call between them had another text, and each call left
\* the engine inside an open block or sub-query
CallsIndependentWitness ==
  /\ call = "formatPlsql"
  /\ pc = "done"
  /\ Len(returned) = 2
  /\ returned[1].input = input
  /\ returned[1].upperCase = upperCase
  /\ returned[2].input # input
  /\ returned[1].out = out
  /\ out # input
  /\ ind.level > 0

-----------------------------------------------------------------------------
(* Claims about the semicolon split *)

\* '(' minus ')' among the first k characters of the line
ParenCount(line, k) ==
  Cardinality({j \in 1..k : line[j] = "("}) - Cardinality({j \in 1..k : line[j] = ")"})

\* the character at the 1-based position k of the masked line is a ';' that
\* is followed, after optional blanks, by a word character, with as many ')'
\* as '(' before it
IsSplitPoint(sLine, k) ==
  /\ sLine[k] = ";"
  /\ SkipSpace(sLine, k) < Len(sLine)
  /\ IsWord(At(sLine, SkipSpace(sLine, k)))
  /\ ParenCount(sLine, k) = 0

\* the text that formatPlsql tokenizes, and the lines of its Code Mask
Normalized == NormalizeLineEndings(input)
MaskLines == SplitLines(StripNonCode(Normalized))

SplitPoints ==
  {<<n, k>> \in (DOMAIN MaskLines) \X (1..Len(Normalized)) :
     k <= Len(MaskLines[n]) /\ IsSplitPoint(MaskLines[n], k)}

\* no string or comment of the input spans lines, and rule 1 joins no lines
OneLineLiterals ==
  /\ \A n \in DOMAIN tok.tokens :
       tok.tokens[n].type # "code" => ~Occurs(<<NL>>, tok.tokens[n].value)
  /\ ReplaceAll("rejoinEnd", Normalized) = Normalized

\* C20: where the semicolon split breaks a line. When the split has reached
\* its fixed point, the text has one more line for each ';' of the input
\* that, on the Code Mask of its line, is followed after optional blanks by a
\* word character at parenthesis count zero, and for no other: a ';' followed
\* only by a comment or a string is not split.
SemicolonSplitPoints ==
  (call = "formatPlsql" /\ pc = "keywords" /\ OneLineLiterals) =>
    Len(SplitLines(code)) = Len(InLines) + Cardinality(SplitPoints)

-----------------------------------------------------------------------------
(* formatPlsql applied to its own result *)

\* text that is already laid out: a block, a call whose closers stand behind
\* the last argument, alone and before the next statement, a padded query
FormattedTexts ==
  { <<"B","E","G","I","N",NL," "," ","x"," ",":","="," ","1",";",NL,"E","N","D",";">>,
    <<"f","(",NL," "," ","a",",",NL," "," ","b",")",";">>,
    <<"f","(",NL," "," ","a",",",NL," "," ","b",")",";",NL,"c",";">>,
    <<"f","(",NL,"a",",",NL,"b",NL,")",";",NL,"c",";">>,
    <<"S","E","L","E","C","T"," ","a",NL,"F","R","O","M"," "," "," ","t",NL,"W","H","E","R","E"," "," ","b"," ","="," ","1",NL,"A","N","D"," "," "," "," ","c"," ","="," ","2",";">> }

TwiceInputs == FormattedTexts \cup CallInputs \cup SqlInputs \cup BlockInputs

\* a call of formatPlsql(s, options) whose result is formatted again
InitTwice ==
  /\ call = "formatPlsql"
  /\ input \in TwiceInputs
  /\ upperCase \in BOOLEAN
  /\ tabSize = 2
  /\ pc = "start"
  /\ code = input
  /\ InitLocals
  /\ returned = <<>>

\* the first call has returned: formatPlsql is called with the returned text
\* and the same options
FormatAgain ==
  /\ call = "formatPlsql"
  /\ pc = "done"
  /\ returned = <<>>
  /\ returned' = <<[input |-> input, upperCase |-> upperCase,
                    tabSize |-> tabSize, out |-> out]>>
  /\ input' = out
  /\ code' = out
  /\ pc' = "start"
  /\ tok' = TokStart
  /\ UNCHANGED <<call, upperCase, tabSize, fmtLocals, out, runs>>

NextTwice == NextFmt \/ FormatAgain

SpecTwice == InitTwice /\ [][NextTwice]_vars

\* C21: formatPlsql is idempotent. The second call, made with the text the
\* first call returned and the same options, returns that text unchanged.
FormatIdempotent ==
  (call = "formatPlsql" /\ pc = "done" /\ returned # <<>>) =>
    /\ input = returned[1].out
    /\ out = input

-----------------------------------------------------------------------------
(* Claims about the state of the passes of formatPlsql *)

PassInputs ==
  CaseThenIfInputs \cup ClosedCallInputs \cup SqlInputs \cup SubQueryInputs
    \cup CommentedCallInputs \cup CloserLineInputs \cup CloserInputs
    \cup ParenTexts \cup LevelTexts

\* a call of formatPlsql(s, options) on a text that exercises one pass
InitPass ==
  /\ call = "formatPlsql"
  /\ input \in PassInputs
  /\ upperCase \in BOOLEAN
  /\ tabSize = 2
  /\ pc = "start"
  /\ code = input
  /\ InitLocals
  /\ returned = <<>>

SpecPass == InitPass /\ [][NextFmt]_vars

\* the kinds of the constructs that the first n lines leave open, innermost
\* first, in a text written one keyword or statement per line
RECURSIVE OpenKinds(_, _)
OpenKinds(lines, n) ==
  IF n = 0 THEN <<>>
  ELSE LET st == OpenKinds(lines, n - 1)
           t == Trim(lines[n])
       IN IF st # <<>> /\ ClosesKind(t, Head(st)) THEN Tail(st)
          ELSE IF OpenedKind(t) # "" THEN <<OpenedKind(t)>> \o st
          ELSE st

OpenCases(lines, n) ==
  LET st == OpenKinds(lines, n)
  IN Cardinality({k \in DOMAIN st : st[k] \in {"CASE", "EXPR"}})

\* C22: the branch stack follows the CASE constructs. While the indentation
\* pass reads a text whose constructs are all closed, caseStack holds one
\* entry for each CASE statement and CASE expression that the lines read so
\* far leave open, so it is empty after the last line; and in the returned
\* text the ELSE of an IF statement has the indent of its IF, also when a
\* CASE construct was closed before the IF.
BranchStackFollowsCases ==
  /\ (call = "formatPlsql" /\ pc = "indent"
        /\ OpenKinds(origLines, Len(origLines)) = <<>>)
       => Len(ind.caseStack) = OpenCases(origLines, p)
  /\ (Returned /\ HasIf(InLines) /\ Len(OutLines) = Len(InLines))
       => IfAligned(InLines, OutLines, 1, <<>>, tabSize)

\* the first n lines hold as many ')' as '('
ParensClosed(lines, n) ==
  LET text == JoinLines(SubSeq(lines, 1, n))
  IN ParenCount(text, Len(text)) = 0

\* C23: parenCallDepth returns to 0. In the indentation pass, once the lines
\* read so far hold a line that ends with '(' and as many ')' as '(',
\* parenCallDepth is 0, however the call was closed; in the returned text the
\* statement after the call has the indent of the line that opened the call.
ParenDepthReturns ==
  /\ (call = "formatPlsql" /\ pc = "indent" /\ p > 0 /\ p <= Len(strippedLines)
        /\ (\E n \in 1..p : reOpenParenEnd(strippedLines[n]))
        /\ ParensClosed(strippedLines, p))
       => ind.parenCallDepth = 0
  /\ Returned =>
       \A f, s \in DOMAIN OutLines :
         (f = FirstLine(OutLines, 1, EndsWithParen) /\ Trim(OutLines[s]) = <<"c",";">>)
           => IndentOf(OutLines[s]) = IndentOf(OutLines[f])

\* the characters of s that are not blank, numbered from 1, that have a blank
\* after them
GapsAfter(s) ==
  LET ns == SelectSeq([k \in 1..Len(s) |-> k], LAMBDA k : ~IsSpace(s[k]))
  IN {j \in 1..(Len(ns) - 1) : ns[j + 1] > ns[j] + 1}

\* new has the characters of old up to blanks and letter case, and a blank
\* wherever old has one between two characters
KeepsTokens(old, new) ==
  /\ ToUpper(Squeeze(new)) = ToUpper(Squeeze(old))
  /\ GapsAfter(old) \subseteq GapsAfter(new)

\* C24: the query alignment pass fuses no tokens. Each step of the pass
\* leaves in its line the characters it had, up to blanks and letter case,
\* and two characters that a blank separated before the step are separated
\* by a blank after it; so a clause keyword, the eight-character ORDER BY and
\* GROUP BY included, stays apart from the text that follows it.
AlignKeepsTokens ==
  [][(call = "formatPlsql" /\ pc = "sqlAlign" /\ p < Len(result))
       => KeepsTokens(result[p + 1], result'[p + 1])]_vars

\* the ')' and ';' of s that stand in code segments, in their order
CodeClosers(s) == SelectSeq(StripNonCode(s), LAMBDA c : c \in {")", ";"})

\* C25: the trailing closer pass turns no code into comment text. The ')' and
\* ';' that stand in code segments of the text given are, in the same order,
\* the ')' and ';' that stand in code segments of the text returned; none of
\* them has been appended behind a line comment.
ClosersStayCode ==
  Returned => CodeClosers(out) = CodeClosers(NormalizeLineEndings(input))

\* the number of Alignment Blocks that are open: the current one and those
\* on the stack
OpenBlocks(st) == Len(st.sqlBlockStack) + Len(st.currentSqlBlock)

\* the line opens an Alignment Block when read in the state st
OpensBlock(line, st) ==
  \/ SubSelectAt(line, 0) >= 0
  \/ /\ st.currentSqlBlock = <<>>
     /\ \E kw \in SqlStarts : WordEndCI(TrimStart(line), kw, 0)

\* C26: a terminator closes the open Alignment Block. A step of the query
\* alignment pass whose line ends with ';' or with ')' and LOOP, read while a
\* block is open or opening one itself, leaves one block fewer open than
\* were open with the line's own block counted; a block that a '(SELECT'
\* opens on a line that ends with ';' is closed on that line.
TerminatorClosesBlock ==
  [][(call = "formatPlsql" /\ pc = "sqlAlign" /\ p < Len(result))
       => LET line == result[p + 1]
              opened == OpenBlocks(sql) + (IF OpensBlock(line, sql) THEN 1 ELSE 0)
          IN (EndsSqlBlock(TrimStart(line)) /\ opened > 0)
               => OpenBlocks(sql') = opened - 1]_vars

EndsBlockLine(line) == EndsSqlBlock(TrimStart(line))

\* C27: the lines of a sub-query stand under its SELECT. In the returned
\* text, for every line that holds '(SELECT' in any letter case, each line
\* after it, up to the line that ends the sub-query, that starts with a clause
\* keyword starts at the column of that SELECT keyword, and each such line
\* that starts with AND or OR and comes after the WHERE line starts at that
\* column plus the pad width, whether keywords are normalised or not.
SubQueryColumns ==
  Returned =>
    \A s \in DOMAIN OutLines :
      SubSelectAt(OutLines[s], 0) >= 0 =>
        LET col == SkipSpace(OutLines[s], SubSelectAt(OutLines[s], 0) + 1)
            e == FirstLine(OutLines, s + 1, EndsBlockLine)
            last == IF e = 0 THEN Len(OutLines) ELSE e
        IN \A m \in (s + 1)..last :
             LET t == TrimStart(OutLines[m])
             IN /\ FirstKeyword(sqlClauseKws, t) # <<>> => IndentOf(OutLines[m]) = col
                /\ (/\ FirstKeyword(sqlCondKws, t) # <<>>
                    /\ \E w \in (s + 1)..(m - 1) : WordEndCI(TrimStart(OutLines[w]), KW_WHERE, 0))
                     => IndentOf(OutLines[m]) = col + PAD_WIDTH

-----------------------------------------------------------------------------
(* Claims about the trailing closer pass *)

\* the line holds nothing but ')', ';' and blanks, and one closer at least
IsClosersLine(line) == IsCloserOnly(Trim(line))

\* a line that is not blank stands before line n
HasTextBefore(lines, n) == \E m \in 1..(n - 1) : Trim(lines[m]) # <<>>

StaysLine(lines, n) == ~IsClosersLine(lines[n]) \/ ~HasTextBefore(lines, n)

\* the nearest line before n that is not blank and stays a line of its own
NearestText(lines, n) ==
  CHOOSE m \in 1..(n - 1) :
    /\ Trim(lines[m]) # <<>>
    /\ StaysLine(lines, m)
    /\ \A k \in (m + 1)..(n - 1) : Trim(lines[k]) = <<>> \/ ~StaysLine(lines, k)

\* line m with, appended and trimmed, the closers lines among the first n
\* lines that have line m as their nearest line with text
WithClosers(lines, n, m) ==
  LET js == SelectSeq([k \in 1..n |-> k],
                      LAMBDA j : ~StaysLine(lines, j) /\ NearestText(lines, j) = m)
  IN lines[m] \o Concat([k \in DOMAIN js |-> Trim(lines[js[k]])])

-----------------------------------------------------------------------------
(* Claims about the parenthesis continuation pass *)

QuoteChars == {QUOTE, "\""}

\* the position of the quote character q that closes the quoted text entered
\* before position k, a doubled q standing for itself; Len(s) when none does
RECURSIVE QuoteEnd(_, _, _)
QuoteEnd(s, k, q) ==
  LET c == {j \in k..(Len(s) - 1) : At(s, j) = q}
  IN IF c = {} THEN Len(s)
     ELSE LET j == Least(c)
          IN IF j + 1 < Len(s) /\ At(s, j + 1) = q THEN QuoteEnd(s, j + 2, q) ELSE j

\* the positions from k on that lie in quoted text, quotes included
RECURSIVE QuotedPositions(_, _)
QuotedPositions(s, k) ==
  LET opens == {j \in k..(Len(s) - 1) : At(s, j) \in QuoteChars}
  IN IF opens = {} THEN {}
     ELSE LET a == Least(opens)
              e == QuoteEnd(s, a + 1, At(s, a))
          IN (a..e) \cup QuotedPositions(s, e + 1)

\* the positions of the '(' outside quoted text that no later ')' matches: up
\* to any later position, the ')' read after it outside quoted text are no
\* more than the '(' read after it
UnmatchedOpens(s) ==
  LET outside == (0..(Len(s) - 1)) \ QuotedPositions(s, 0)
      opens(a, b) == Cardinality({j \in outside : a < j /\ j <= b /\ At(s, j) = "("})
      closes(a, b) == Cardinality({j \in outside : a < j /\ j <= b /\ At(s, j) = ")"})
  IN {i \in outside : At(s, i) = "(" /\ \A j \in outside : j > i => closes(i, j) <= opens(i, j)}

\* the column, in its line, of the first character after position i that is
\* no blank
ColumnAfter(s, i) ==
  LET nls == {j \in 0..(i - 1) : At(s, j) = NL}
      lineStart == IF nls = {} THEN 0 ELSE (CHOOSE m \in nls : \A n \in nls : n <= m) + 1
  IN ContentStart(s, i + 1) - lineStart

\* C29: the stack of target columns follows the open parentheses. After each
\* step of the parenthesis continuation pass, parenAlignStack holds one
\* entry for every '(' outside quoted text of the lines read so far that no
\* later ')' has matched, in the order of the '(', each entry the column of
\* the text after its '('; a ')' with nothing open changes nothing.
ParenStackFollowsOpens ==
  (call = "formatPlsql" /\ pc = "parenAlign") =>
    LET text == JoinLines(SubSeq(result, 1, p))
        open == UnmatchedOpens(text)
        at == SelectSeq([k \in 1..Len(text) |-> k - 1], LAMBDA i : i \in open)
    IN parenAlignStack = [n \in DOMAIN at |-> ColumnAfter(text, at[n])]

-----------------------------------------------------------------------------
(* Claims about the counters of the indentation pass *)

\* C30: level and parenCallDepth never fall below zero. Every step of the
\* indentation pass on a line that is not blank leaves level and
\* parenCallDepth at zero or above: after a '/' line and after an END line
\* read at level 0 level is 0, after an END CASE; line read with a CASE
\* recorded level is the recorded level, also when that is above the current
\* level, and after a closer-only line read at parenCallDepth 0
\* parenCallDepth is 0.
CountersNeverNegative ==
  [][(call = "formatPlsql" /\ pc = "indent" /\ p < Len(origLines)
        /\ p < Len(strippedLines) /\ Trim(origLines[p + 1]) # <<>>)
       => LET t == Trim(strippedLines[p + 1])
              isEndLine == reEnd(t) \/ reEndLabel(t)
          IN /\ ind'.level >= 0
             /\ ind'.parenCallDepth >= 0
             /\ \A k \in DOMAIN ind'.caseStack : ind'.caseStack[k] >= 0
             /\ IndentOf(result'[p + 1]) >= 0
             /\ reSlash(t) => ind'.level = 0
             /\ (isEndLine /\ ~reEndCase(t) /\ ind.level = 0) => ind'.level = 0
             /\ (reEndCase(t) /\ ind.caseStack # <<>>)
                  => ind'.level = ind.caseStack[Len(ind.caseStack)]
             /\ (reCloseParen(t) /\ ind.parenCallDepth = 0) => ind'.parenCallDepth = 0]_vars

\* C30 witness: the pass has read an END CASE; line at level 0, after END
\* lines that closed more than was open, and has set level to the level
\* recorded for the CASE, which is above 0
CountersNeverNegativeWitness ==
  /\ call = "formatPlsql"
  /\ pc = "indent"
  /\ p >= 2
  /\ p <= Len(strippedLines)
  /\ reEndCase(Trim(strippedLines[p]))
  /\ reEnd(Trim(strippedLines[p - 1]))
  /\ IndentOf(result[p - 1]) = 0
  /\ IndentOf(result[p]) > 0
  /\ ind.level * tabSize = IndentOf(result[p])

====
